---- MODULE Spec2Model ----
(***************************************************************************)
(* A model of the per-network DNS stub resolver core: the packet           *)
(* inspector and answer cache of res_cache.cpp, the query path of          *)
(* res_send.cpp (res_nsend, res_tls_send) and the private-DNS tracker of   *)
(* PrivateDnsConfiguration.cpp.                                            *)
(*                                                                         *)
(* Packets are sequences of bytes (0..255).  A cursor is a 0-based offset  *)
(* into the packet, as a pointer difference from DnsPacket.base; byte      *)
(* p[k] of the source is pkt[k + 1] here.                                  *)
(***************************************************************************)
EXTENDS Integers, Sequences, FiniteSets, TLC

(***************************************************************************)
(* Bit and byte helpers (C integer operators on uint8_t / unsigned).       *)
(***************************************************************************)
Min(a, b) == IF a < b THEN a ELSE b

RECURSIVE XorBits(_, _, _)
\* a ^ b on the low n bits
XorBits(a, b, n) ==
    IF n = 0 THEN 0
    ELSE (((a % 2) + (b % 2)) % 2) + 2 * XorBits(a \div 2, b \div 2, n - 1)

\* p[2] & 0xFC : QR, opcode and AA of header byte 2
QrOpcodeAaBits(b) == (b \div 4) * 4
\* p[3] & 0xCF : RA, Z (top bit) and RCODE of header byte 3 (AD, CD masked out)
RaZRcodeBits(b) == ((b \div 64) * 64) + (b % 16)

(***************************************************************************)
(* DNS wire constants.                                                     *)
(***************************************************************************)
DNS_HEADER_SIZE == 12
DNS_TYPE_A == <<0, 1>>
DNS_TYPE_PTR == <<0, 12>>
DNS_TYPE_MX == <<0, 15>>
DNS_TYPE_AAAA == <<0, 28>>
DNS_TYPE_ALL == <<0, 255>>
DNS_CLASS_IN == <<0, 1>>

(***************************************************************************)
(* DnsPacket cursor primitives.                                            *)
(***************************************************************************)
_dnsPacket_skip(pkt, cursor, count) == Min(cursor + count, Len(pkt))

\* [val, cursor]: val = -1 and the cursor unmoved when fewer than 2 bytes remain
_dnsPacket_readInt16(pkt, cursor) ==
    IF cursor + 2 > Len(pkt)
    THEN [val |-> -1, cursor |-> cursor]
    ELSE [val |-> pkt[cursor + 1] * 256 + pkt[cursor + 2], cursor |-> cursor + 2]

\* TRUE iff the bytes at the cursor are `bytes`; the caller advances by Len(bytes)
_dnsPacket_checkBytes(pkt, cursor, bytes) ==
    /\ cursor + Len(bytes) <= Len(pkt)
    /\ \A i \in 1..Len(bytes) : pkt[cursor + i] = bytes[i]

(***************************************************************************)
(* Query checking.  A cursor result of -1 stands for the return value 0    *)
(* (malformed); otherwise the result is the advanced cursor.               *)
(***************************************************************************)
RECURSIVE _dnsPacket_checkQName(_, _)
_dnsPacket_checkQName(pkt, p) ==
    IF p >= Len(pkt) THEN -1
    ELSE LET c == pkt[p + 1] IN
         IF c = 0 THEN p + 1
         ELSE IF c >= 64 THEN -1
         ELSE _dnsPacket_checkQName(pkt, p + 1 + c)

_dnsPacket_checkQR(pkt, cursor) ==
    LET CheckTypeClass(n) ==
            IF n = -1 THEN -1
            ELSE IF ~(\/ _dnsPacket_checkBytes(pkt, n, DNS_TYPE_A)
                      \/ _dnsPacket_checkBytes(pkt, n, DNS_TYPE_PTR)
                      \/ _dnsPacket_checkBytes(pkt, n, DNS_TYPE_MX)
                      \/ _dnsPacket_checkBytes(pkt, n, DNS_TYPE_AAAA)
                      \/ _dnsPacket_checkBytes(pkt, n, DNS_TYPE_ALL)) THEN -1
            ELSE IF ~_dnsPacket_checkBytes(pkt, n + 2, DNS_CLASS_IN) THEN -1
            ELSE n + 4
    IN  CheckTypeClass(_dnsPacket_checkQName(pkt, cursor))

RECURSIVE CheckQRs(_, _, _)
\* the loop "for (; qdCount > 0; qdCount--) if (!_dnsPacket_checkQR(packet)) return 0"
CheckQRs(pkt, cursor, qdCount) ==
    IF qdCount <= 0 THEN TRUE
    ELSE LET CheckRest(n) == IF n = -1 THEN FALSE ELSE CheckQRs(pkt, n, qdCount - 1)
         IN  CheckRest(_dnsPacket_checkQR(pkt, cursor))

\* _dnsPacket_checkQuery as its comment "ANCOUNT, DNCOUNT and ARCOUNT must be 0"
\* reads: a query with an additional record is rejected
_dnsPacket_checkQuery_no_additional(pkt) ==
    IF DNS_HEADER_SIZE > Len(pkt) THEN FALSE
    ELSE IF QrOpcodeAaBits(pkt[3]) # 0 \/ RaZRcodeBits(pkt[4]) # 0 THEN FALSE
    ELSE LET qdCount == pkt[5] * 256 + pkt[6]
             anCount == pkt[7] * 256 + pkt[8]
             dnCount == pkt[9] * 256 + pkt[10]
             arCount == pkt[11] * 256 + pkt[12]
         IN  IF anCount # 0 \/ dnCount # 0 \/ arCount # 0 THEN FALSE
             ELSE IF qdCount = 0 THEN FALSE
             ELSE CheckQRs(pkt, DNS_HEADER_SIZE, qdCount)

_dnsPacket_checkQuery(pkt) ==
    IF DNS_HEADER_SIZE > Len(pkt) THEN FALSE
    ELSE IF QrOpcodeAaBits(pkt[3]) # 0 \/ RaZRcodeBits(pkt[4]) # 0 THEN FALSE
    ELSE LET qdCount == pkt[5] * 256 + pkt[6]
             anCount == pkt[7] * 256 + pkt[8]
             dnCount == pkt[9] * 256 + pkt[10]
             arCount == pkt[11] * 256 + pkt[12]
         IN  IF anCount # 0 \/ dnCount # 0 \/ arCount > 1 THEN FALSE
             ELSE IF qdCount = 0 THEN FALSE
             ELSE CheckQRs(pkt, DNS_HEADER_SIZE, qdCount)

(***************************************************************************)
(* Query hashing: 32-bit FNV.  An unsigned 32-bit hash is the pair         *)
(* <<high 16 bits, low 16 bits>>, so that hash * FNV_MULT wraps at 2^32    *)
(* exactly as the unsigned multiplication of the source does.              *)
(***************************************************************************)
FNV_MULT == 16777619
FNV_BASIS_HI == 33052
FNV_BASIS_LO == 40389
FNV_BASIS == <<FNV_BASIS_HI, FNV_BASIS_LO>>

\* hash * FNV_MULT ^ byte
FnvStep(hash, byte) ==
    LET mh == FNV_MULT \div 65536
        ml == FNV_MULT % 65536
        lowprod == hash[2] * ml
        lo == lowprod % 65536
        hi == ((hash[1] * ml) + (hash[2] * mh) + (lowprod \div 65536)) % 65536
    IN  <<hi, ((lo \div 256) * 256) + XorBits(lo % 256, byte, 8)>>

RECURSIVE FnvFold(_, _, _, _)
\* fold FnvStep over pkt[from+1 .. to]
FnvFold(pkt, from, to, hash) ==
    IF from >= to THEN hash
    ELSE CHOOSE r \in {FnvFold(pkt, from + 1, to, h) :
                           h \in {FnvStep(hash, pkt[from + 1])}} : TRUE

\* A hashing position st is [hash, cursor]: the running hash and packet->cursor.
\* The loop "while (numBytes > 0 && p < end)" never decrements numBytes: with
\* numBytes > 0 it consumes every byte up to the end of the packet.
_dnsPacket_hashBytes(pkt, st, numBytes) ==
    IF numBytes > 0 /\ st.cursor < Len(pkt)
    THEN [hash |-> FnvFold(pkt, st.cursor, Len(pkt), st.hash), cursor |-> Len(pkt)]
    ELSE st

RECURSIVE _dnsPacket_hashQName(_, _)
_dnsPacket_hashQName(pkt, st) ==
    IF st.cursor >= Len(pkt) THEN st
    ELSE LET p == st.cursor
             c == pkt[p + 1]
         IN  IF c = 0 \/ c >= 64 \/ p + 1 + c >= Len(pkt)
             THEN [hash |-> st.hash, cursor |-> p + 1]
             ELSE _dnsPacket_hashQName(pkt,
                      [hash |-> FnvFold(pkt, p + 1, p + 1 + c, st.hash),
                       cursor |-> p + 1 + c])

_dnsPacket_hashQR(pkt, st) ==
    _dnsPacket_hashBytes(pkt, _dnsPacket_hashQName(pkt, st), 4)

_dnsPacket_hashRR(pkt, st) ==
    LET HashRData(t) ==
            LET rdlength == _dnsPacket_readInt16(pkt, t.cursor)
            IN  _dnsPacket_hashBytes(pkt, [hash |-> t.hash, cursor |-> rdlength.cursor],
                                     rdlength.val)
    IN  HashRData(_dnsPacket_hashBytes(pkt, _dnsPacket_hashQR(pkt, st), 4))

RECURSIVE HashQRs(_, _, _)
\* "for (; count > 0; count--) hash = _dnsPacket_hashQR(packet, hash)"
HashQRs(pkt, st, count) ==
    IF count <= 0 THEN st
    ELSE HashQRs(pkt, _dnsPacket_hashQR(pkt, st), count - 1)

RECURSIVE HashRRs(_, _, _)
\* "for (; arcount > 0; arcount--) hash = _dnsPacket_hashRR(packet, hash)"
HashRRs(pkt, st, count) ==
    IF count <= 0 THEN st
    ELSE HashRRs(pkt, _dnsPacket_hashRR(pkt, st), count - 1)

\* The callers run it on packets of at least DNS_HEADER_SIZE bytes or discard
\* the result (entry_init_key hashes first and checks afterwards).
_dnsPacket_hashQuery(pkt) ==
    IF Len(pkt) < 4 THEN FNV_BASIS
    ELSE
    LET c2 == _dnsPacket_skip(pkt, 0, 2)                 \* ignore the ID
        c3 == _dnsPacket_skip(pkt, c2, 1)
        \* the RD bit, then the second header byte
        HashHeader == _dnsPacket_hashBytes(pkt,
                          [hash |-> FnvStep(FNV_BASIS, pkt[3] % 2), cursor |-> c3], 1)
        HashRecords(h1) ==
            LET qd == _dnsPacket_readInt16(pkt, h1.cursor)       \* QDCOUNT
                c4 == _dnsPacket_skip(pkt, qd.cursor, 4)
                ar == _dnsPacket_readInt16(pkt, c4)              \* ARCOUNT
            IN  HashRRs(pkt,
                        HashQRs(pkt, [hash |-> h1.hash, cursor |-> ar.cursor], qd.val),
                        ar.val)
    IN  HashRecords(HashHeader).hash

(***************************************************************************)
(* Query comparison.  A result is [eq, c1, c2]: the return value and the   *)
(* two cursors (advanced only where the source advances them).             *)
(***************************************************************************)
RECURSIVE _dnsPacket_isEqualDomainName(_, _, _, _)
_dnsPacket_isEqualDomainName(pack1, p1, pack2, p2) ==
    IF p1 >= Len(pack1) \/ p2 >= Len(pack2) THEN [eq |-> FALSE, c1 |-> p1, c2 |-> p2]
    ELSE LET c1 == pack1[p1 + 1]
             c2 == pack2[p2 + 1]
         IN  IF c1 # c2 THEN [eq |-> FALSE, c1 |-> p1, c2 |-> p2]
             ELSE IF c1 = 0 THEN [eq |-> TRUE, c1 |-> p1 + 1, c2 |-> p2 + 1]
             ELSE IF c1 >= 64 THEN [eq |-> FALSE, c1 |-> p1, c2 |-> p2]
             ELSE IF (p1 + 1 + c1 > Len(pack1)) \/ (p2 + 1 + c1 > Len(pack2))
                  THEN [eq |-> FALSE, c1 |-> p1, c2 |-> p2]
             ELSE IF \E i \in 1..c1 : pack1[p1 + 1 + i] # pack2[p2 + 1 + i]
                  THEN [eq |-> FALSE, c1 |-> p1, c2 |-> p2]
             ELSE _dnsPacket_isEqualDomainName(pack1, p1 + 1 + c1, pack2, p2 + 1 + c1)

\* numBytes is never negative on the packets of QueryTable; a negative count
\* (an RDLENGTH read past the end of both packets) is outside this operator.
_dnsPacket_isEqualBytes(pack1, p1, pack2, p2, numBytes) ==
    IF p1 + numBytes > Len(pack1) \/ p2 + numBytes > Len(pack2)
    THEN [eq |-> FALSE, c1 |-> p1, c2 |-> p2]
    ELSE IF \E i \in 1..numBytes : pack1[p1 + i] # pack2[p2 + i]
    THEN [eq |-> FALSE, c1 |-> p1, c2 |-> p2]
    ELSE [eq |-> TRUE, c1 |-> p1 + numBytes, c2 |-> p2 + numBytes]

_dnsPacket_isEqualQR(pack1, p1, pack2, p2) ==
    LET EqualTypeClass(d) ==
            IF ~d.eq THEN d
            ELSE _dnsPacket_isEqualBytes(pack1, d.c1, pack2, d.c2, 2 + 2)
    IN  EqualTypeClass(_dnsPacket_isEqualDomainName(pack1, p1, pack2, p2))

_dnsPacket_isEqualRR(pack1, p1, pack2, p2) ==
    LET EqualRData(t) ==
            IF ~t.eq THEN t
            ELSE LET rdlength1 == _dnsPacket_readInt16(pack1, t.c1)
                     rdlength2 == _dnsPacket_readInt16(pack2, t.c2)
                 IN  IF rdlength1.val # rdlength2.val
                     THEN [eq |-> FALSE, c1 |-> rdlength1.cursor, c2 |-> rdlength2.cursor]
                     ELSE _dnsPacket_isEqualBytes(pack1, rdlength1.cursor,
                                                  pack2, rdlength2.cursor, rdlength1.val)
        EqualTTL(q) ==
            IF ~q.eq THEN q
            ELSE EqualRData(_dnsPacket_isEqualBytes(pack1, q.c1, pack2, q.c2, 4))
    IN  EqualTTL(_dnsPacket_isEqualQR(pack1, p1, pack2, p2))

RECURSIVE EqualQRs(_, _, _, _, _)
EqualQRs(pack1, p1, pack2, p2, count) ==
    IF count <= 0 THEN [eq |-> TRUE, c1 |-> p1, c2 |-> p2]
    ELSE LET EqualRest(r) ==
                 IF ~r.eq THEN r ELSE EqualQRs(pack1, r.c1, pack2, r.c2, count - 1)
         IN  EqualRest(_dnsPacket_isEqualQR(pack1, p1, pack2, p2))

RECURSIVE EqualRRs(_, _, _, _, _)
EqualRRs(pack1, p1, pack2, p2, count) ==
    IF count <= 0 THEN [eq |-> TRUE, c1 |-> p1, c2 |-> p2]
    ELSE LET EqualRest(r) ==
                 IF ~r.eq THEN r ELSE EqualRRs(pack1, r.c1, pack2, r.c2, count - 1)
         IN  EqualRest(_dnsPacket_isEqualRR(pack1, p1, pack2, p2))

\* _dnsPacket_isEqualQuery without the comparison of header byte 3: the AD
\* and CD bits do not tell two queries apart
_dnsPacket_isEqualQuery_ignore_ad_cd(pack1, pack2) ==
    IF (pack1[3] % 2) # (pack2[3] % 2) THEN FALSE
    ELSE
    LET a4 == _dnsPacket_skip(pack1, 0, 4)
        b4 == _dnsPacket_skip(pack2, 0, 4)
        count1 == _dnsPacket_readInt16(pack1, a4)
        count2 == _dnsPacket_readInt16(pack2, b4)
        a8 == _dnsPacket_skip(pack1, count1.cursor, 4)
        b8 == _dnsPacket_skip(pack2, count2.cursor, 4)
        arcount1 == _dnsPacket_readInt16(pack1, a8)
        arcount2 == _dnsPacket_readInt16(pack2, b8)
    IN  IF count1.val # count2.val \/ count1.val < 0 THEN FALSE
        ELSE IF arcount1.val # arcount2.val \/ arcount1.val < 0 THEN FALSE
        ELSE LET EqualRecords(q) ==
                     IF ~q.eq THEN FALSE
                     ELSE EqualRRs(pack1, q.c1, pack2, q.c2, arcount1.val).eq
             IN  EqualRecords(EqualQRs(pack1, arcount1.cursor, pack2, arcount2.cursor,
                                       count1.val))

\* Both packets have passed _dnsPacket_checkQuery (at least 12 bytes).
_dnsPacket_isEqualQuery(pack1, pack2) ==
    IF (pack1[3] % 2) # (pack2[3] % 2) THEN FALSE          \* different RD
    ELSE IF pack1[4] # pack2[4] THEN FALSE                 \* different CD or AD
    ELSE
    LET a4 == _dnsPacket_skip(pack1, 0, 4)
        b4 == _dnsPacket_skip(pack2, 0, 4)
        count1 == _dnsPacket_readInt16(pack1, a4)
        count2 == _dnsPacket_readInt16(pack2, b4)
        a8 == _dnsPacket_skip(pack1, count1.cursor, 4)
        b8 == _dnsPacket_skip(pack2, count2.cursor, 4)
        arcount1 == _dnsPacket_readInt16(pack1, a8)
        arcount2 == _dnsPacket_readInt16(pack2, b8)
    IN  IF count1.val # count2.val \/ count1.val < 0 THEN FALSE
        ELSE IF arcount1.val # arcount2.val \/ arcount1.val < 0 THEN FALSE
        ELSE LET EqualRecords(q) ==
                     IF ~q.eq THEN FALSE
                     ELSE EqualRRs(pack1, q.c1, pack2, q.c2, arcount1.val).eq
             IN  EqualRecords(EqualQRs(pack1, arcount1.cursor, pack2, arcount2.cursor,
                                       count1.val))

(***************************************************************************)
(* The packets and answers the model draws its inputs from.  The state     *)
(* holds a query or an answer as its index in these tables.                *)
(***************************************************************************)
Header(id, b2, b3, qdcount, arcount) ==
    <<id \div 256, id % 256, b2, b3, 0, qdcount, 0, 0, 0, 0, 0, arcount>>

\* a label of n bytes 'a', with its length byte
Label(n) == <<n>> \o [i \in 1..n |-> 97]
\* a question: QNAME bytes, then TYPE and CLASS
QuestionOf(name, type, class) == name \o type \o class
NameA == Label(1) \o <<0>>
\* an OPT pseudo-record as an additional record: the root name, TYPE 41, the
\* UDP payload size as CLASS (its high byte size_hi), the TTL field with the
\* byte that holds the DO bit (flags_hi), RDLENGTH and RDATA
OptRR(size_hi, flags_hi, rdata) ==
    <<0, 0, 41, size_hi, 0, 0, 0, flags_hi, 0, 0, Len(rdata)>> \o rdata

\* the question "a." with the given 16-bit TYPE, CLASS IN
Question(type) == <<1, 97, 0>> \o type \o DNS_CLASS_IN

QueryTable ==
    << Header(4660, 1, 0, 1, 0) \o Question(DNS_TYPE_A),      \* 1: A a.
       Header(43981, 3, 0, 1, 0) \o Question(DNS_TYPE_A),     \* 2: as 1, other id, TC set
       Header(4660, 1, 0, 1, 0) \o Question(DNS_TYPE_AAAA),   \* 3: AAAA a.
       Header(4660, 1, 0, 1, 1) \o Question(DNS_TYPE_A),      \* 4: ARCOUNT = 1, no record follows
       Header(4660, 129, 0, 1, 0) \o Question(DNS_TYPE_A),    \* 5: QR = 1 (a response)
       Header(4660, 1, 0, 1, 0) \o Question(DNS_TYPE_MX),     \* 6: MX a.
       Header(43981, 3, 0, 1, 1) \o Question(DNS_TYPE_A),     \* 7: as 4, other id, TC set
       Header(4660, 0, 0, 1, 0) \o Question(DNS_TYPE_A),      \* 8: as 1, RD clear
       Header(4660, 1, 32, 1, 0) \o Question(DNS_TYPE_A),     \* 9: as 1, AD set
       Header(4660, 1, 16, 1, 0) \o Question(DNS_TYPE_A),     \* 10: as 1, CD set
       Header(4660, 1, 0, 1, 0)
           \o QuestionOf(<<1, 65, 0>>, DNS_TYPE_A, DNS_CLASS_IN),   \* 11: A A.
       Header(4660, 1, 0, 1, 1) \o Question(DNS_TYPE_A) \o OptRR(16, 0, << >>),
                                                              \* 12: as 1, with OPT
       Header(43981, 3, 0, 1, 1) \o Question(DNS_TYPE_A) \o OptRR(16, 0, << >>),
                                                              \* 13: as 12, other id, TC set
       Header(4660, 1, 0, 1, 1) \o Question(DNS_TYPE_A) \o OptRR(5, 0, << >>),
                                                              \* 14: as 12, other UDP size
       Header(4660, 1, 0, 1, 1) \o Question(DNS_TYPE_A) \o OptRR(16, 128, << >>),
                                                              \* 15: as 12, DO set
       Header(4660, 1, 0, 1, 1) \o Question(DNS_TYPE_A) \o OptRR(16, 0, <<7>>),
                                                              \* 16: as 12, one byte of RDATA
       Header(4660, 1, 0, 1, 1) \o Question(DNS_TYPE_A) \o OptRR(16, 0, <<8>>),
                                                              \* 17: as 16, other RDATA
       Header(4660, 1, 0, 1, 0) \o Question(DNS_TYPE_A) \o <<0>>,
                                                              \* 18: as 1, and a byte 0 after it
       Header(4660, 1, 0, 1, 0) \o Question(DNS_TYPE_A) \o <<1>> >>
                                                              \* 19: as 18, the byte is 1

QueryIds == DOMAIN QueryTable

\* An answer as ns_initparse / ns_parserr see it: whether the message parses,
\* its answer records (each: whether ns_parserr succeeds, and its TTL), its
\* authority records (type, TTL, and for an SOA whether the RDATA is well formed
\* and its MINIMUM field), and its length in bytes.
NS_T_SOA == "soa"
AnRR(ttl) == [parse_ok |-> TRUE, ttl |-> ttl]
SoaRR(ttl, minimum) ==
    [parse_ok |-> TRUE, type |-> NS_T_SOA, ttl |-> ttl, rdata_ok |-> TRUE, minimum |-> minimum]

\* an authority record that is no SOA
NsRR(ttl) ==
    [parse_ok |-> TRUE, type |-> "ns", ttl |-> ttl, rdata_ok |-> TRUE, minimum |-> 0]

AnswerTable ==
    << [initparse_ok |-> TRUE, an |-> <<AnRR(0)>>, ns |-> <<>>, len |-> 35],            \* 1: TTL 0
       [initparse_ok |-> TRUE, an |-> <<AnRR(1)>>, ns |-> <<>>, len |-> 35],            \* 2: TTL 1
       [initparse_ok |-> TRUE, an |-> <<AnRR(3), AnRR(2)>>, ns |-> <<>>, len |-> 51],   \* 3: TTL 2
       [initparse_ok |-> TRUE, an |-> <<>>, ns |-> <<SoaRR(2, 1)>>, len |-> 70],        \* 4: negative, TTL 1
       [initparse_ok |-> FALSE, an |-> <<>>, ns |-> <<>>, len |-> 12],                  \* 5: unparseable
       [initparse_ok |-> TRUE, an |-> <<>>, ns |-> <<NsRR(2), SoaRR(2, 1)>>, len |-> 90],
                                                        \* 6: negative, an NS before the SOA
       [initparse_ok |-> TRUE, an |-> <<>>, ns |-> <<SoaRR(2, 3), SoaRR(1, 2)>>, len |-> 120],
                                                        \* 7: negative, two SOAs
       [initparse_ok |-> TRUE, an |-> <<>>, ns |-> <<SoaRR(1, 2), NsRR(2)>>, len |-> 90],
                                                        \* 8: negative, an NS after the SOA
       [initparse_ok |-> TRUE, an |-> <<>>, ns |-> <<NsRR(2)>>, len |-> 40],
                                                        \* 9: no answer, no SOA
       [initparse_ok |-> TRUE, an |-> <<>>, ns |-> <<SoaRR(1, 2), SoaRR(2, 2)>>, len |-> 120] >>
                                                        \* 10: negative, the smaller SOA first

AnswerIds == DOMAIN AnswerTable

(***************************************************************************)
(* TTL of an answer.                                                       *)
(***************************************************************************)
RECURSIVE NegativeTTLLoop(_, _, _)
\* n is the 0-based loop index, as in the source
NegativeTTLLoop(ns, n, result) ==
    IF n >= Len(ns) THEN result
    ELSE LET rr == ns[n + 1] IN
         IF rr.parse_ok /\ rr.type = NS_T_SOA /\ rr.rdata_ok
         THEN LET rec_result == Min(rr.ttl, rr.minimum)
              IN  NegativeTTLLoop(ns, n + 1,
                                  IF n = 0 \/ rec_result < result THEN rec_result ELSE result)
         ELSE NegativeTTLLoop(ns, n + 1, result)

answer_getNegativeTTL(answer) == NegativeTTLLoop(answer.ns, 0, 0)

RECURSIVE TTLLoop(_, _, _)
TTLLoop(an, n, result) ==
    IF n >= Len(an) THEN result
    ELSE LET rr == an[n + 1] IN
         IF rr.parse_ok
         THEN TTLLoop(an, n + 1, IF n = 0 \/ rr.ttl < result THEN rr.ttl ELSE result)
         ELSE TTLLoop(an, n + 1, result)

answer_getTTL(answer) ==
    IF ~answer.initparse_ok THEN 0
    ELSE IF Len(answer.an) = 0 THEN answer_getNegativeTTL(answer)
    ELSE TTLLoop(answer.an, 0, 0)

(***************************************************************************)
(* Cache entries and search keys.                                          *)
(***************************************************************************)
\* Tabulate(f): the function f listed argument by argument, so that each of
\* its values is computed once
Tabulate(f) == f @@ << >>

\* entry_hash of the query with the given index
HashTable == Tabulate([q \in QueryIds |-> _dnsPacket_hashQuery(QueryTable[q])])

entry_hash(q) == HashTable[q]

CheckTable == Tabulate([q \in QueryIds |-> _dnsPacket_checkQuery(QueryTable[q])])

\* entry_init_key: the key (hash and query) and whether the query is supported
entry_init_key(q) ==
    [hash |-> entry_hash(q), query |-> q, ok |-> CheckTable[q]]

\* entry_alloc, with the expiry resolv_cache_add sets before linking the entry
entry_alloc(key, answer, expires) ==
    [hash |-> key.hash, query |-> key.query, answer |-> answer, expires |-> expires]

EqualTable ==
    Tabulate([p \in QueryIds \X QueryIds |->
                 IF Len(QueryTable[p[1]]) = Len(QueryTable[p[2]])
                 THEN _dnsPacket_isEqualQuery(QueryTable[p[1]], QueryTable[p[2]])
                 ELSE FALSE])

entry_equals(e1, e2) == EqualTable[<<e1.query, e2.query>>]

\* key->hash % cache->max_entries on the 32-bit hash
BucketIndex(hash, max_entries) ==
    (((hash[1] % max_entries) * (65536 % max_entries)) + hash[2]) % max_entries

(***************************************************************************)
(* The cache (struct resolv_cache).  mru_list is the MRU list from its     *)
(* head (most recently used) to its tail; entries[i] is the collision      *)
(* chain of bucket i in link order; pending_requests is the list of        *)
(* pending_req_info hashes in link order.  An Entry is held by value: its  *)
(* debug id (last_id) is left out.                                         *)
(***************************************************************************)
\* CONFIG_MAX_ENTRIES, scaled down so that a full cache is reached
MaxEntries == 2

resolv_cache_create ==
    [max_entries |-> MaxEntries,
     num_entries |-> 0,
     mru_list |-> <<>>,
     entries |-> [i \in 0..(MaxEntries - 1) |-> <<>>],
     pending_requests |-> <<>>]

SeqRemoveAt(s, i) == SubSeq(s, 1, i - 1) \o SubSeq(s, i + 1, Len(s))

\* the position of the first element of s equal to x (Len(s) + 1 if none)
SeqIndexOf(s, x) ==
    IF \E i \in 1..Len(s) : s[i] = x
    THEN CHOOSE i \in 1..Len(s) : s[i] = x /\ \A j \in 1..(i - 1) : s[j] # x
    ELSE Len(s) + 1

entry_mru_remove(mru_list, e) == SeqRemoveAt(mru_list, SeqIndexOf(mru_list, e))

entry_mru_add(mru_list, e) == <<e>> \o mru_list

\* The Entry** result is a place in a chain: the bucket index and the position
\* in its chain, Len(chain) + 1 standing for the NULL link that ends it.
_cache_lookup_p(cache, key) ==
    LET index == BucketIndex(key.hash, cache.max_entries)
        chain == cache.entries[index]
        First(hits) == IF hits = {} THEN Len(chain) + 1
                       ELSE CHOOSE i \in hits : \A j \in hits : i <= j
    IN  [index |-> index,
         pos |-> First({i \in 1..Len(chain) :
                            chain[i].hash = key.hash /\ entry_equals(chain[i], key)})]

\* *lookup == NULL
IsNullLink(cache, lookup) == lookup.pos > Len(cache.entries[lookup.index])

\* *lookup, for a lookup that is not the NULL link
Deref(cache, lookup) == cache.entries[lookup.index][lookup.pos]

_cache_add_p(cache, lookup, e) ==
    [cache EXCEPT !.entries[lookup.index] = Append(@, e),
                  !.mru_list = entry_mru_add(@, e),
                  !.num_entries = @ + 1]

\* _cache_remove_p without entry_mru_remove
_cache_remove_p_keep_mru(cache, lookup) ==
    [cache EXCEPT !.entries[lookup.index] = SeqRemoveAt(@, lookup.pos),
                  !.num_entries = @ - 1]

_cache_remove_p(cache, lookup) ==
    LET e == Deref(cache, lookup) IN
    [cache EXCEPT !.mru_list = entry_mru_remove(@, e),
                  !.entries[lookup.index] = SeqRemoveAt(@, lookup.pos),
                  !.num_entries = @ - 1]

\* called with a non-empty MRU list (num_entries >= max_entries > 0)
_cache_remove_oldest(cache) ==
    LET oldest == cache.mru_list[Len(cache.mru_list)]
        Remove(lookup) ==
            IF IsNullLink(cache, lookup) THEN cache     \* "should not happen"
            ELSE _cache_remove_p(cache, lookup)
    IN  Remove(_cache_lookup_p(cache, oldest))

RECURSIVE RemoveExpiredLoop(_, _, _)
\* todo: the entries from the loop's position to the tail of the MRU list
RemoveExpiredLoop(cache, todo, now_) ==
    IF todo = <<>> THEN cache
    ELSE LET e == Head(todo) IN
         IF now_ >= e.expires
         THEN LET Remove(lookup) ==
                      IF IsNullLink(cache, lookup) THEN cache    \* "should not happen": return
                      ELSE RemoveExpiredLoop(_cache_remove_p(cache, lookup), Tail(todo), now_)
              IN  Remove(_cache_lookup_p(cache, e))
         ELSE RemoveExpiredLoop(cache, Tail(todo), now_)

_cache_remove_expired(cache, now_) == RemoveExpiredLoop(cache, cache.mru_list, now_)

(***************************************************************************)
(* Pending requests.  cv.notify_all() leaves no trace in the state: a      *)
(* waiter may re-evaluate its predicate at any time (see WaitWake).        *)
(***************************************************************************)
HasPending(cache, key) ==
    \E i \in 1..Len(cache.pending_requests) : cache.pending_requests[i] = key.hash

\* a variant that links a new record without looking for an existing one
cache_has_pending_request_locked_blind(cache, key, append_if_not_found) ==
    [found |-> HasPending(cache, key),
     cache |-> IF append_if_not_found
               THEN [cache EXCEPT !.pending_requests = Append(@, key.hash)]
               ELSE cache]

\* [found, cache]: the return value and the cache after the optional append
cache_has_pending_request_locked(cache, key, append_if_not_found) ==
    IF HasPending(cache, key) THEN [found |-> TRUE, cache |-> cache]
    ELSE [found |-> FALSE,
          cache |-> IF append_if_not_found
                    THEN [cache EXCEPT !.pending_requests = Append(@, key.hash)]
                    ELSE cache]

_cache_notify_waiting_tid_locked(cache, key) ==
    IF HasPending(cache, key)
    THEN [cache EXCEPT !.pending_requests = SeqRemoveAt(@, SeqIndexOf(@, key.hash))]
    ELSE cache

cache_flush_pending_requests_locked(cache) ==
    [cache EXCEPT !.pending_requests = <<>>]

cache_flush_locked(cache) ==
    [cache_flush_pending_requests_locked(cache) EXCEPT
         !.entries = [i \in DOMAIN cache.entries |-> <<>>],
         !.mru_list = <<>>,
         !.num_entries = 0]

(***************************************************************************)
(* resolv_cache_lookup, resolv_cache_add and _resolv_cache_query_failed    *)
(* as functions of the cache list cl (netid -> resolv_cache_info; a netid  *)
(* outside DOMAIN cl has no cache) and the clock.  Flags are a set of      *)
(* flag names.  An answer of 0 means that no answer was copied.            *)
(***************************************************************************)
ANDROID_RESOLV_NO_RETRY == "NO_RETRY"
ANDROID_RESOLV_NO_CACHE_STORE == "NO_CACHE_STORE"
ANDROID_RESOLV_NO_CACHE_LOOKUP == "NO_CACHE_LOOKUP"

RESOLV_CACHE_UNSUPPORTED == "UNSUPPORTED"
RESOLV_CACHE_NOTFOUND == "NOTFOUND"
RESOLV_CACHE_FOUND == "FOUND"
RESOLV_CACHE_SKIP == "SKIP"
\* not a ResolvCacheStatus: the call blocks in cv.wait_for
LOOKUP_WAIT == "WAIT"

find_named_cache_locked(cl, netid) == netid \in DOMAIN cl

LookupResult(status, cl, anslen, answer) ==
    [status |-> status, cl |-> cl, anslen |-> anslen, answer |-> answer]

\* from "now = _time_now()" to the end of resolv_cache_lookup, for an entry found
\* a variant that never treats an entry as stale
LookupHit_no_expiry(cl, netid, lookup, answersize, now_) ==
    LET cache == cl[netid].cache
        e == Deref(cache, lookup)
        answerlen == AnswerTable[e.answer].len
    IN  IF answerlen > answersize
        THEN LookupResult(RESOLV_CACHE_UNSUPPORTED, cl, answerlen, 0)
        ELSE LookupResult(RESOLV_CACHE_FOUND,
                          IF cache.mru_list[1] # e
                          THEN [cl EXCEPT ![netid].cache.mru_list =
                                              entry_mru_add(entry_mru_remove(@, e), e)]
                          ELSE cl,
                          answerlen, e.answer)

\* resolv_cache_lookup from the point where the entry was found (lines 1219-1246)
LookupHit(cl, netid, lookup, answersize, now_) ==
    LET cache == cl[netid].cache
        e == Deref(cache, lookup)
        answerlen == AnswerTable[e.answer].len
    IN  IF now_ >= e.expires
        THEN LookupResult(RESOLV_CACHE_NOTFOUND,
                          [cl EXCEPT ![netid].cache = _cache_remove_p(cache, lookup)], 0, 0)
        ELSE IF answerlen > answersize
        THEN LookupResult(RESOLV_CACHE_UNSUPPORTED, cl, answerlen, 0)
        ELSE LookupResult(RESOLV_CACHE_FOUND,
                          IF cache.mru_list[1] # e
                          THEN [cl EXCEPT ![netid].cache.mru_list =
                                              entry_mru_add(entry_mru_remove(@, e), e)]
                          ELSE cl,
                          answerlen, e.answer)

\* resolv_cache_lookup up to its return or to the call of cv.wait_for
resolv_cache_lookup(cl, netid, query, answersize, flags, now_) ==
    IF ANDROID_RESOLV_NO_CACHE_LOOKUP \in flags
    THEN LookupResult(IF ANDROID_RESOLV_NO_CACHE_STORE \in flags
                      THEN RESOLV_CACHE_SKIP ELSE RESOLV_CACHE_NOTFOUND, cl, 0, 0)
    ELSE
    LET Lookup(key) ==
            IF ~key.ok THEN LookupResult(RESOLV_CACHE_UNSUPPORTED, cl, 0, 0)
            ELSE IF ~find_named_cache_locked(cl, netid)
            THEN LookupResult(RESOLV_CACHE_UNSUPPORTED, cl, 0, 0)
            ELSE
            LET cache == cl[netid].cache
                \* not found: register a pending request, or wait for the one registered
                Pending(pending) ==
                    LookupResult(IF ~pending.found THEN RESOLV_CACHE_NOTFOUND
                                 ELSE LOOKUP_WAIT,
                                 [cl EXCEPT ![netid].cache = pending.cache], 0, 0)
                Found(lookup) ==
                    IF IsNullLink(cache, lookup)
                    THEN IF ANDROID_RESOLV_NO_CACHE_STORE \in flags
                         THEN LookupResult(RESOLV_CACHE_SKIP, cl, 0, 0)
                         ELSE Pending(cache_has_pending_request_locked(cache, key, TRUE))
                    ELSE LookupHit(cl, netid, lookup, answersize, now_)
            IN  Found(_cache_lookup_p(cache, key))
    IN  Lookup(entry_init_key(query))

\* the predicate of cv.wait_for: it re-reads the cache of netid
WaitPredicate(cl, netid, query) ==
    IF ~find_named_cache_locked(cl, netid) THEN TRUE
    ELSE ~cache_has_pending_request_locked(cl[netid].cache, entry_init_key(query), FALSE).found

\* resolv_cache_lookup_resume without the count of the timeouts
resolv_cache_lookup_resume_uncounted(cl, netid, query, answersize, ret, now_, max_count) ==
    IF ~find_named_cache_locked(cl, netid)
    THEN LookupResult(RESOLV_CACHE_NOTFOUND, cl, 0, 0)
    ELSE LET cache == cl[netid].cache
             Found(lookup) ==
                 IF IsNullLink(cache, lookup)
                 THEN LookupResult(RESOLV_CACHE_NOTFOUND, cl, 0, 0)
                 ELSE LookupHit(cl, netid, lookup, answersize, now_)
         IN  Found(_cache_lookup_p(cache, entry_init_key(query)))

\* resolv_cache_lookup from the return of cv.wait_for (ret is its result)
resolv_cache_lookup_resume(cl, netid, query, answersize, ret, now_, max_count) ==
    IF ~find_named_cache_locked(cl, netid)
    THEN LookupResult(RESOLV_CACHE_NOTFOUND, cl, 0, 0)
    ELSE LET cl1 == IF ret THEN cl
                    ELSE [cl EXCEPT ![netid].wait_for_pending_req_timeout_count =
                                        Min(@ + 1, max_count)]
             cache == cl1[netid].cache
             Found(lookup) ==
                 IF IsNullLink(cache, lookup)
                 THEN LookupResult(RESOLV_CACHE_NOTFOUND, cl1, 0, 0)
                 ELSE LookupHit(cl1, netid, lookup, answersize, now_)
         IN  Found(_cache_lookup_p(cache, entry_init_key(query)))

\* answer_getTTL of the answer with the given index
TTLTable == Tabulate([a \in AnswerIds |-> answer_getTTL(AnswerTable[a])])

AddResult(ret, cl) == [ret |-> ret, cl |-> cl]

resolv_cache_add(cl, netid, query, answer, now_) ==
    LET Add(key) ==
            IF ~key.ok THEN AddResult("-EINVAL", cl)
            ELSE IF ~find_named_cache_locked(cl, netid) THEN AddResult("-ENONET", cl)
            ELSE
            LET cache == cl[netid].cache
                Exists(c) ==
                    AddResult("-EEXIST",
                              [cl EXCEPT ![netid].cache =
                                             _cache_notify_waiting_tid_locked(c, key)])
                Notify(c) ==
                    AddResult("0", [cl EXCEPT ![netid].cache =
                                                  _cache_notify_waiting_tid_locked(c, key)])
                Insert(c) ==
                    LET ttl == TTLTable[answer]
                    IN  Notify(IF ttl > 0
                               THEN _cache_add_p(c, _cache_lookup_p(c, key),
                                                 entry_alloc(key, answer, ttl + now_))
                               ELSE c)
                \* after the eviction: "lookup = _cache_lookup_p(cache, key)" again
                Recheck(c) ==
                    IF ~IsNullLink(c, _cache_lookup_p(c, key)) THEN Exists(c)
                    ELSE Insert(c)
                RemoveOldest(c) ==
                    Recheck(IF c.num_entries >= c.max_entries
                            THEN _cache_remove_oldest(c) ELSE c)
            IN  IF ~IsNullLink(cache, _cache_lookup_p(cache, key)) THEN Exists(cache)
                ELSE IF cache.num_entries >= cache.max_entries
                THEN RemoveOldest(_cache_remove_expired(cache, now_))
                ELSE Insert(cache)
    IN  Add(entry_init_key(query))

_resolv_cache_query_failed(cl, netid, query, flags) ==
    IF flags \cap {ANDROID_RESOLV_NO_CACHE_STORE, ANDROID_RESOLV_NO_CACHE_LOOKUP} # {}
    THEN cl
    ELSE LET Notify(key) ==
                 IF ~key.ok THEN cl
                 ELSE IF find_named_cache_locked(cl, netid)
                 THEN [cl EXCEPT ![netid].cache = _cache_notify_waiting_tid_locked(@, key)]
                 ELSE cl
         IN  Notify(entry_init_key(query))

\* MAXNS, MAXDNSRCH and MAXNSSAMPLES (the slots of a sample ring), scaled down
MaxNs == 2
MaxDnsrch == 2
MaxSamples == 2

\* a res_stats after calloc
NoStats == [sample_count |-> 0, sample_next |-> 0, samples |-> [i \in 0..(MaxSamples - 1) |-> 0]]

\* create_cache_info (calloc) with the cache of resolv_cache_create; of the
\* res_params only max_samples and retry_count are kept
create_cache_info ==
    [cache |-> resolv_cache_create,
     nscount |-> 0,
     nameservers |-> << >>,
     revision_id |-> 0,
     params |-> [max_samples |-> 0, retry_count |-> 0],
     nsstats |-> [i \in 0..(MaxNs - 1) |-> NoStats],
     search_domains |-> << >>,
     wait_for_pending_req_timeout_count |-> 0]

resolv_create_cache_for_net_locked(cl, netid) ==
    IF find_named_cache_locked(cl, netid) THEN cl       \* -EEXIST
    ELSE [n \in DOMAIN cl \cup {netid} |-> IF n = netid THEN create_cache_info ELSE cl[n]]

\* the cache is flushed and then freed together with its resolv_cache_info
resolv_delete_cache_for_net(cl, netid) ==
    [n \in DOMAIN cl \ {netid} |-> cl[n]]

(***************************************************************************)
(* Nameservers and reachability statistics of a network.  A server or a    *)
(* domain is a string; nsaddrinfo, which holds the parsed form of each     *)
(* nameserver, is left out.                                                *)
(***************************************************************************)
RES_DFLRETRY == 2

\* a server string that getaddrinfo_numeric rejects
BAD_SERVER == "bad"
\* a domain of more than MAXDNSRCHPATH - 1 characters
LONG_DOMAIN == "long"

\* getaddrinfo_numeric taking every string for an address
getaddrinfo_numeric_any(server) == TRUE

\* getaddrinfo_numeric(server, "53", hints, ...) == 0
getaddrinfo_numeric(server) == server # BAD_SERVER

\* the elements of s, each at its first occurrence, that satisfy keep
RECURSIVE CopyIfNew(_, _, _)
CopyIfNew(s, i, res) ==
    IF i > Len(s) THEN res
    ELSE IF s[i] # LONG_DOMAIN /\ ~(\E j \in 1..Len(res) : res[j] = s[i])
    THEN CopyIfNew(s, i + 1, Append(res, s[i]))
    ELSE CopyIfNew(s, i + 1, res)

filter_domains(domains) ==
    LET res == CopyIfNew(domains, 1, << >>)
    IN  IF Len(res) > MaxDnsrch THEN SubSeq(res, 1, MaxDnsrch) ELSE res

filter_nameservers(servers) ==
    IF Len(servers) > MaxNs THEN SubSeq(servers, 1, MaxNs) ELSE servers

\* only the retry count matters here: 0 stands for the default
resolv_set_experiment_params(params) ==
    IF params.retry_count = 0 THEN [params EXCEPT !.retry_count = RES_DFLRETRY] ELSE params

\* resolv_is_nameservers_equal comparing the lists in their order
resolv_is_nameservers_equal_ordered(oldServers, newServers) ==
    oldServers = newServers

resolv_is_nameservers_equal(oldServers, newServers) ==
    {oldServers[i] : i \in 1..Len(oldServers)} = {newServers[i] : i \in 1..Len(newServers)}

\* the loop writes nsstats->..., that is nsstats[0], in each of its MAXNS
\* iterations
res_cache_clear_stats_locked(info) ==
    [info EXCEPT !.nsstats[0].sample_count = 0, !.nsstats[0].sample_next = 0]

free_nameservers_locked(info) ==
    LET cleared == [info EXCEPT
                       !.nameservers = IF info.nscount > 0 THEN << >> ELSE @,
                       !.nsstats = [i \in DOMAIN @ |->
                                       IF i < info.nscount
                                       THEN [@[i] EXCEPT !.sample_count = 0, !.sample_next = 0]
                                       ELSE @[i]],
                       !.nscount = 0]
    IN  [res_cache_clear_stats_locked(cleared) EXCEPT !.revision_id = @ + 1]

SetResult(ret, cl) == [ret |-> ret, cl |-> cl]

\* the cache_info after resolv_set_nameservers found it, for servers that
\* were filtered and parsed
SetNameserversLocked(info, nameservers, domains, params) ==
    LET old_max_samples == info.params.max_samples
        info1 == [info EXCEPT !.params = resolv_set_experiment_params(params)]
        Replaced(freed) ==
            [res_cache_clear_stats_locked([freed EXCEPT !.nameservers = nameservers,
                                                        !.nscount = Len(nameservers)])
                EXCEPT !.revision_id = @ + 1]
        info2 == IF ~resolv_is_nameservers_equal(info1.nameservers, nameservers)
                 THEN Replaced(free_nameservers_locked(info1))
                 ELSE IF info1.params.max_samples # old_max_samples
                 THEN [res_cache_clear_stats_locked(info1) EXCEPT !.revision_id = @ + 1]
                 ELSE info1
    IN  [info2 EXCEPT !.search_domains = filter_domains(domains)]

resolv_set_nameservers(cl, netid, servers, domains, params) ==
    LET nameservers == filter_nameservers(servers)
    IN  IF \E i \in 1..Len(nameservers) : ~getaddrinfo_numeric(nameservers[i])
        THEN SetResult("-EINVAL", cl)
        ELSE IF netid \notin DOMAIN cl THEN SetResult("-ENONET", cl)
        ELSE SetResult("0", [cl EXCEPT ![netid] =
                                 SetNameserversLocked(@, nameservers, domains, params)])

\* [revision_id, params]: what resolv_cache_get_resolver_stats returns and
\* the res_params it copies (the copy of nsstats is not used here);
\* revision_id is -1 without the network
resolv_cache_get_resolver_stats(cl, netid) ==
    IF netid \in DOMAIN cl
    THEN [revision_id |-> cl[netid].revision_id, params |-> cl[netid].params]
    ELSE [revision_id |-> -1, params |-> [max_samples |-> 0, retry_count |-> 0]]

_res_cache_add_stats_sample_locked(stats, sample, max_samples) ==
    [stats EXCEPT !.samples[stats.sample_next] = sample,
                  !.sample_count = IF @ < max_samples THEN @ + 1 ELSE @,
                  !.sample_next = IF @ + 1 >= max_samples THEN 0 ELSE @ + 1]

_resolv_cache_add_resolver_stats_sample(cl, netid, revision_id, ns, sample, max_samples) ==
    IF max_samples <= 0 THEN cl
    ELSE IF netid \notin DOMAIN cl THEN cl
    ELSE IF cl[netid].revision_id # revision_id THEN cl
    ELSE [cl EXCEPT ![netid].nsstats[ns] =
                        _res_cache_add_stats_sample_locked(@, sample, max_samples)]

(***************************************************************************)
(* PrivateDnsConfiguration.  A DnsTlsServer is [addr, name].  modes is      *)
(* mPrivateDnsModes and transports is mPrivateDnsTransports, both maps     *)
(* from the netIds present; a tracker maps the address of a server to the  *)
(* server recorded under it and its Validation (tracker.find(server) may   *)
(* return an entry whose key differs from server, see                      *)
(* recordPrivateDnsValidation, so the tracker orders by address only).     *)
(* validators is the bag of detached validate_thread's: it maps the server *)
(* and netId that threads captured to the number of threads that hold      *)
(* them.                                                                   *)
(***************************************************************************)
MODE_OFF == "OFF"
MODE_OPPORTUNISTIC == "OPPORTUNISTIC"
MODE_STRICT == "STRICT"

VALIDATION_IN_PROCESS == "in_process"
VALIDATION_SUCCESS == "success"
VALIDATION_FAIL == "fail"

DnsTlsServer(addr, name) == [addr |-> addr, name |-> name]

\* the bag b with one more of every element of the set s
BagAdd(b, s) ==
    [x \in DOMAIN b \cup s |->
        (IF x \in DOMAIN b THEN b[x] ELSE 0) + (IF x \in s THEN 1 ELSE 0)]

\* the bag b with one x less
BagRemove(b, x) ==
    [y \in {z \in DOMAIN b : z # x \/ b[z] > 1} |-> IF y = x THEN b[y] - 1 ELSE b[y]]

MapErase(m, k) == [x \in DOMAIN m \ {k} |-> m[x]]

MapPut(m, k, v) == [x \in DOMAIN m \cup {k} |-> IF x = k THEN v ELSE m[x]]

\* tracker[server] = validation: operator[] keeps the key of an existing entry
TrackerPut(tracker, server, validation) ==
    MapPut(tracker, server.addr,
           [server |-> IF server.addr \in DOMAIN tracker
                       THEN tracker[server.addr].server ELSE server,
            validation |-> validation])

needsValidation(tracker, server) ==
    IF server.addr \notin DOMAIN tracker THEN TRUE
    ELSE tracker[server.addr].validation = VALIDATION_FAIL

\* the servers of tlsServers that set() hands to validatePrivateDnsProvider
ToValidate(tracker, tlsServers) == {sv \in tlsServers : needsValidation(tracker, sv)}

\* validatePrivateDnsProvider for every server of a set: each is marked
\* in_process and gets a validate_thread
validatePrivateDnsProvider(pd, servers, netId) ==
    [pd EXCEPT
        !.transports[netId] =
            [a \in DOMAIN @ \cup {sv.addr : sv \in servers} |->
                IF \E sv \in servers : sv.addr = a
                THEN [server |-> IF a \in DOMAIN @ THEN @[a].server
                                 ELSE CHOOSE sv \in servers : sv.addr = a,
                      validation |-> VALIDATION_IN_PROCESS]
                ELSE @[a]],
        !.validators = BagAdd(@, {[netId |-> netId, server |-> sv] : sv \in servers})]

\* a variant of set that keeps the tracker of a network it turns OFF
PrivateDnsConfiguration_set_keep_tracker(pd, netId, servers, name) ==
    LET tlsServers == {DnsTlsServer(a, name) : a \in servers}
        mode == IF name # "" THEN MODE_STRICT
                ELSE IF tlsServers # {} THEN MODE_OPPORTUNISTIC
                ELSE MODE_OFF
        pd1 == [pd EXCEPT !.modes = MapPut(@, netId, mode)]
    IN  IF mode = MODE_OFF
        THEN pd1
        ELSE LET tracker0 == IF netId \in DOMAIN pd1.transports
                             THEN pd1.transports[netId] ELSE << >>
                 kept == {a \in DOMAIN tracker0 : tracker0[a].server \in tlsServers}
                 tracker1 == [a \in kept |-> tracker0[a]]
                 pd2 == [pd1 EXCEPT !.transports = MapPut(@, netId, tracker1)]
             IN  validatePrivateDnsProvider(pd2, ToValidate(tracker1, tlsServers), netId)

\* PrivateDnsConfiguration::set with servers that parse
PrivateDnsConfiguration_set(pd, netId, servers, name) ==
    LET tlsServers == {DnsTlsServer(a, name) : a \in servers}
        mode == IF name # "" THEN MODE_STRICT
                ELSE IF tlsServers # {} THEN MODE_OPPORTUNISTIC
                ELSE MODE_OFF
        pd1 == [pd EXCEPT !.modes = MapPut(@, netId, mode)]
    IN  IF mode = MODE_OFF
        THEN [pd1 EXCEPT !.transports = MapErase(@, netId)]
        ELSE LET tracker0 == IF netId \in DOMAIN pd1.transports
                             THEN pd1.transports[netId] ELSE << >>
                 kept == {a \in DOMAIN tracker0 : tracker0[a].server \in tlsServers}
                 tracker1 == [a \in kept |-> tracker0[a]]
                 pd2 == [pd1 EXCEPT !.transports = MapPut(@, netId, tracker1)]
             IN  validatePrivateDnsProvider(pd2, ToValidate(tracker1, tlsServers), netId)

\* PrivateDnsStatus: the mode and a copy of the tracker
PrivateDnsConfiguration_getStatus(pd, netId) ==
    IF netId \notin DOMAIN pd.modes
    THEN [mode |-> MODE_OFF, serversMap |-> << >>]
    ELSE [mode |-> pd.modes[netId],
          serversMap |-> IF netId \in DOMAIN pd.transports
                         THEN pd.transports[netId] ELSE << >>]

validatedServers(status) ==
    {status.serversMap[a].server :
        a \in {x \in DOMAIN status.serversMap :
                   status.serversMap[x].validation = VALIDATION_SUCCESS}}

PrivateDnsConfiguration_clear(pd, netId) ==
    [pd EXCEPT !.modes = MapErase(@, netId), !.transports = MapErase(@, netId)]

\* a variant that validates again after a failure in every mode
recordPrivateDnsValidation_reeval_any_mode(pd, server, netId, success) ==
    IF netId \notin DOMAIN pd.transports THEN [pd |-> pd, needs_reeval |-> FALSE]
    ELSE IF netId \notin DOMAIN pd.modes THEN [pd |-> pd, needs_reeval |-> FALSE]
    ELSE LET tracker == pd.transports[netId]
             expected == IF server.addr \notin DOMAIN tracker THEN FALSE
                         ELSE tracker[server.addr].server = server
             success1 == IF expected THEN success ELSE FALSE
             reevaluationStatus == IF expected THEN ~success ELSE FALSE
             validation == IF success1 THEN VALIDATION_SUCCESS
                           ELSE IF reevaluationStatus THEN VALIDATION_IN_PROCESS
                           ELSE VALIDATION_FAIL
         IN  [pd |-> [pd EXCEPT !.transports[netId] = TrackerPut(@, server, validation)],
              needs_reeval |-> reevaluationStatus]

\* [pd, needs_reeval]: the configuration after the call and its return value
recordPrivateDnsValidation(pd, server, netId, success) ==
    IF netId \notin DOMAIN pd.transports THEN [pd |-> pd, needs_reeval |-> FALSE]
    ELSE IF netId \notin DOMAIN pd.modes THEN [pd |-> pd, needs_reeval |-> FALSE]
    ELSE LET modeDoesReevaluation == pd.modes[netId] = MODE_STRICT
             tracker == pd.transports[netId]
             expected == IF server.addr \notin DOMAIN tracker THEN FALSE
                         ELSE tracker[server.addr].server = server
             success1 == IF expected THEN success ELSE FALSE
             reevaluationStatus ==
                 IF expected THEN (IF success THEN FALSE ELSE modeDoesReevaluation)
                 ELSE FALSE
             validation == IF success1 THEN VALIDATION_SUCCESS
                           ELSE IF reevaluationStatus THEN VALIDATION_IN_PROCESS
                           ELSE VALIDATION_FAIL
         IN  [pd |-> [pd EXCEPT !.transports[netId] = TrackerPut(@, server, validation)],
              needs_reeval |-> reevaluationStatus]

(***************************************************************************)
(* State.                                                                  *)
(*   now         _time_now(), in seconds                                   *)
(*   cache_list  res_cache_list: netid -> resolv_cache_info                *)
(*   pc, tl      each thread's position and its locals                     *)
(*   pdns        gPrivateDnsConfiguration and its validation threads       *)
(*   last_call   the call that completed last, with what it returned       *)
(*               (reset when time passes)                                  *)
(***************************************************************************)
VARIABLES now, cache_list, pc, tl, pdns, last_call

vars == <<now, cache_list, pc, tl, pdns, last_call>>

Threads == {"t1", "t2"}
NetIds == {30}

\* bounds of the model
MaxTime == 2
MaxTimeoutCount == 1
\* the datagrams that a send_dg discards at most
MaxDiscarded == 2
\* the validate_thread's that run for one server of one network
MaxValidators == 2

\* the answer buffer of the callers
PACKETSZ == 512

\* answer: the answer passed to an add, the answer returned by a lookup;
\* flushed: the lookup had waited, and its cache was flushed meanwhile;
\* servers, params: the arguments of a resolv_set_nameservers
NoCall == [op |-> "none", netid |-> 0, query |-> 0, ret |-> "", answer |-> 0,
           flushed |-> FALSE, servers |-> << >>,
           params |-> [max_samples |-> 0, retry_count |-> 0]]

\* only the calls that succeeded are remembered: an add that returned 0 and
\* a lookup that returned RESOLV_CACHE_FOUND
Call(op, netid, query, ret, answer, flushed) ==
    IF ret \in {"0", RESOLV_CACHE_FOUND}
    THEN [NoCall EXCEPT !.op = op, !.netid = netid, !.query = query, !.ret = ret,
                        !.answer = answer, !.flushed = flushed]
    ELSE NoCall

\* a PrivateDnsStatus that was not read yet
NoStatus == [mode |-> "", serversMap |-> << >>]

\* The locals of a thread that is in no call.  Those of a call of
\* resolv_res_nsend: its arguments (netid, query, answersize, flags,
\* use_local for NET_CONTEXT_FLAG_USE_LOCAL_NAMESERVERS), cache_status,
\* statp->nscount, *fallback, what the call returns (ret, answer) and, while
\* res_tls_send runs, its privateDnsStatus (status) and loop counter (polls).
\* The others record what the call did:
\*   first_mode, first_validated  the mode res_tls_send read first, and
\*                                whether that status had a validated server
\*   tls_mode     the mode of the status res_tls_send held when it returned
\*   polled       the loop of res_tls_send slept and read the status
\*   observed     such a read found a validated server
\*   response, tls_answer  what the dispatcher returned
\*   upstream     the number of upstream queries, over TLS or cleartext
\*   cleartext    send_dg or send_vc ran
\*   blocked      the lookup waited on a pending request
\*   flushed      cache_flush_locked ran on the cache of netid during that wait
\* revision_id and max_samples are what resolv_cache_get_resolver_stats gave
\* the thread; outdated records that the nameservers or max_samples of netid
\* changed, or its cache_info was freed, after that.  retry_count is
\* params.retry_count as it was read with them.
\* usable .. ns and usableServersCount are the locals of the retry loop of
\* res_nsend (large: buflen > PACKETSZ; tc_udp_tcp: statp->tc_mode ==
\* TC_MODE_UDP_TCP); tried records how its calls of send_dg and send_vc
\* ended, contacted the servers they were sent to, exhausted that the loop
\* ran out of attempts, tried_ns and tried_attempt the server and the
\* attempt index of each of these calls as the iteration began, sampled
\* the servers of the tries whose sample the
\* loop handed to resolv_cache_add_resolver_stats_sample, in the order of
\* the calls.  base_timeout_msec is params->base_timeout_msec as
\* get_timeout is given it, timeout the timespec it returned.  dg holds the
\* arguments and locals of a running send_dg (NoDg), and is empty otherwise.
NoLocals ==
    [netid |-> 0, query |-> 0, answersize |-> 0, flags |-> {}, use_local |-> FALSE,
     cache_status |-> "", nscount |-> 0, status |-> NoStatus, polls |-> 0,
     fallback |-> FALSE, ret |-> "", answer |-> 0,
     first_mode |-> "", first_validated |-> FALSE, tls_mode |-> "",
     polled |-> FALSE, observed |-> FALSE, response |-> "", tls_answer |-> 0,
     upstream |-> 0, cleartext |-> FALSE, blocked |-> FALSE, flushed |-> FALSE,
     revision_id |-> 0, max_samples |-> 0, outdated |-> FALSE,
     retry_count |-> 0, usable |-> {}, retryTimes |-> 0, large |-> FALSE,
     tc_udp_tcp |-> FALSE, useTcp |-> FALSE, gotsomewhere |-> FALSE, terrno |-> "",
     attempt |-> 0, ns |-> 0, tried |-> << >>, exhausted |-> FALSE,
     usableServersCount |-> 0, contacted |-> {},
     base_timeout_msec |-> 0, timeout |-> [tv_sec |-> 0, tv_nsec |-> 0],
     sampled |-> << >>, tried_ns |-> << >>, tried_attempt |-> << >>,
     dg |-> << >>]

PdnsInit == [modes |-> << >>, transports |-> << >>, validators |-> << >>]

InitCache ==
    /\ now = 0
    /\ cache_list = resolv_create_cache_for_net_locked(<< >>, 30)
    /\ pc = [t \in Threads |-> "idle"]
    /\ tl = [t \in Threads |-> NoLocals]
    /\ pdns = PdnsInit
    /\ last_call = NoCall

(***************************************************************************)
(* The cache API called directly (as the tests and res_nsend do).  Every   *)
(* call runs under cache_mutex, so it is one step, except a lookup that    *)
(* blocks in cv.wait_for: it resumes in WaitWake or WaitTimeout.           *)
(***************************************************************************)
CacheLookup(t, netid, query, answersize, flags) ==
    /\ pc[t] = "idle"
    /\ \E r \in {resolv_cache_lookup(cache_list, netid, query, answersize, flags, now)} :
       IF r.status = LOOKUP_WAIT
       THEN /\ pc' = [pc EXCEPT ![t] = "wait"]
            /\ tl' = [tl EXCEPT ![t] = [NoLocals EXCEPT !.netid = netid, !.query = query,
                                                        !.answersize = answersize,
                                                        !.flags = flags]]
            /\ cache_list' = r.cl
            /\ UNCHANGED last_call
       ELSE /\ cache_list' = r.cl
            /\ last_call' = Call("lookup", netid, query, r.status, r.answer, FALSE)
            /\ UNCHANGED <<pc, tl>>
    /\ UNCHANGED <<now, pdns>>

\* a variant of the wait without its timeout: it ends only when the
\* predicate holds
WaitEnd_no_timeout(t, timeout) ==
    /\ pc[t] = "wait"
    /\ WaitPredicate(cache_list, tl[t].netid, tl[t].query)
    /\ \E r \in {resolv_cache_lookup_resume(cache_list, tl[t].netid, tl[t].query,
                                             tl[t].answersize, TRUE, now, MaxTimeoutCount)} :
           /\ cache_list' = r.cl
           /\ last_call' = Call("lookup", tl[t].netid, tl[t].query, r.status, r.answer,
                                 tl[t].flushed)
    /\ pc' = [pc EXCEPT ![t] = "idle"]
    /\ tl' = [tl EXCEPT ![t] = NoLocals]
    /\ UNCHANGED <<now, pdns>>

\* The wait ends with ret = pred() after a notification or a spurious wakeup
\* that finds the predicate true (timeout = FALSE), or after 20 seconds of
\* steady-clock time (PENDING_REQUEST_TIMEOUT), whatever the predicate says.
\* The steady clock is independent of the rest of the state, so the timeout
\* may fire at any point.
WaitEnd(t, timeout) ==
    /\ pc[t] = "wait"
    /\ \E ret \in {WaitPredicate(cache_list, tl[t].netid, tl[t].query)} :
       /\ timeout \/ ret
       /\ \E r \in {resolv_cache_lookup_resume(cache_list, tl[t].netid, tl[t].query,
                                                tl[t].answersize, ret, now, MaxTimeoutCount)} :
              /\ cache_list' = r.cl
              /\ last_call' = Call("lookup", tl[t].netid, tl[t].query, r.status, r.answer,
                                    tl[t].flushed)
    /\ pc' = [pc EXCEPT ![t] = "idle"]
    /\ tl' = [tl EXCEPT ![t] = NoLocals]
    /\ UNCHANGED <<now, pdns>>

WaitWake(t) == WaitEnd(t, FALSE)

WaitTimeout(t) == WaitEnd(t, TRUE)

CacheAdd(t, netid, query, answer) ==
    /\ pc[t] = "idle"
    /\ \E r \in {resolv_cache_add(cache_list, netid, query, answer, now)} :
       /\ \A n \in DOMAIN r.cl : Len(r.cl[n].cache.mru_list) <= MaxEntries + 1
       /\ cache_list' = r.cl
       /\ last_call' = Call("add", netid, query, r.ret, answer, FALSE)
    /\ UNCHANGED <<now, pc, tl, pdns>>

CacheQueryFailed(t, netid, query, flags) ==
    /\ pc[t] = "idle"
    /\ cache_list' = _resolv_cache_query_failed(cache_list, netid, query, flags)
    /\ last_call' = NoCall
    /\ UNCHANGED <<now, pc, tl, pdns>>

CreateCache(netid) ==
    /\ ~find_named_cache_locked(cache_list, netid)
    /\ cache_list' = resolv_create_cache_for_net_locked(cache_list, netid)
    /\ last_call' = NoCall
    /\ UNCHANGED <<now, pc, tl, pdns>>

\* the locals after cache_flush_locked ran on the cache of netid: the
\* lookups that wait on it have seen a flush
Flushed(netid) ==
    [t \in Threads |-> IF pc[t] \in {"wait", "n_wait"} /\ tl[t].netid = netid
                       THEN [tl[t] EXCEPT !.flushed = TRUE] ELSE tl[t]]

\* the locals after the nameservers or max_samples of netid changed or its
\* cache_info was freed: the revision ids read from it are out of date
Outdated(locals, netid) ==
    [t \in Threads |-> IF pc[t] = "s_held" /\ locals[t].netid = netid
                       THEN [locals[t] EXCEPT !.outdated = TRUE] ELSE locals[t]]

DeleteCache(netid) ==
    /\ find_named_cache_locked(cache_list, netid)
    /\ cache_list' = resolv_delete_cache_for_net(cache_list, netid)
    /\ tl' = Outdated(Flushed(netid), netid)
    /\ last_call' = NoCall
    /\ UNCHANGED <<now, pc, pdns>>

\* resolv_flush_cache_for_net: cache_flush_locked on the cache of netid
FlushCache(netid) ==
    /\ find_named_cache_locked(cache_list, netid)
    /\ cache_list' = [cache_list EXCEPT ![netid].cache = cache_flush_locked(@)]
    /\ tl' = Flushed(netid)
    /\ last_call' = NoCall
    /\ UNCHANGED <<now, pc, pdns>>

\* a second passes
Tick ==
    /\ now < MaxTime
    /\ now' = now + 1
    /\ last_call' = NoCall
    /\ UNCHANGED <<cache_list, pc, tl, pdns>>

CacheQueries == {1, 4}
CacheAnswers == {1, 2}
CacheFlags == {{}, {ANDROID_RESOLV_NO_CACHE_STORE}}

NextCache ==
    \/ \E t \in Threads, n \in NetIds, q \in CacheQueries, f \in CacheFlags :
           CacheLookup(t, n, q, PACKETSZ, f)
    \/ \E t \in Threads : WaitWake(t)
    \/ \E t \in Threads : WaitTimeout(t)
    \/ \E t \in Threads, n \in NetIds, q \in CacheQueries, a \in CacheAnswers :
           CacheAdd(t, n, q, a)
    \/ \E t \in Threads, n \in NetIds, q \in CacheQueries : CacheQueryFailed(t, n, q, {})
    \/ \E n \in NetIds : CreateCache(n)
    \/ \E n \in NetIds : DeleteCache(n)
    \/ Tick

SpecCache == InitCache /\ [][NextCache]_vars

\* SpecCache with the caches flushed too
NextCacheFlush ==
    \/ NextCache
    \/ \E n \in NetIds : FlushCache(n)

SpecCacheFlush == InitCache /\ [][NextCacheFlush]_vars

(***************************************************************************)
(* SpecEvict: adds and lookups of three queries that are equal to          *)
(* themselves, on a cache of MaxEntries entries, while the time passes:    *)
(* the cache gets full, and entries are evicted.                           *)
(***************************************************************************)
EvictQueries == {1, 3, 6}
EvictAnswers == {1, 2, 3}

NextEvict ==
    \/ \E t \in Threads, n \in NetIds, q \in EvictQueries : CacheLookup(t, n, q, PACKETSZ, {})
    \/ \E t \in Threads : WaitWake(t)
    \/ \E t \in Threads : WaitTimeout(t)
    \/ \E t \in Threads, n \in NetIds, q \in EvictQueries, a \in EvictAnswers :
           CacheAdd(t, n, q, a)
    \/ Tick

SpecEvict == InitCache /\ [][NextEvict]_vars

(***************************************************************************)
(* SpecWait: lookups, adds and failures of one query while the cache of    *)
(* the network is deleted and created again.  cv.wait_for returns at the   *)
(* latest when PENDING_REQUEST_TIMEOUT has passed, so a thread that waits  *)
(* does not wait forever: WaitTimeout is weakly fair.                      *)
(***************************************************************************)
WaitQueries == {1}
WaitAnswers == {1, 2}

NextWait ==
    \/ \E t \in Threads, n \in NetIds, q \in WaitQueries : CacheLookup(t, n, q, PACKETSZ, {})
    \/ \E t \in Threads : WaitWake(t)
    \/ \E t \in Threads : WaitTimeout(t)
    \/ \E t \in Threads, n \in NetIds, q \in WaitQueries, a \in WaitAnswers :
           CacheAdd(t, n, q, a)
    \/ \E t \in Threads, n \in NetIds, q \in WaitQueries : CacheQueryFailed(t, n, q, {})
    \/ \E n \in NetIds : CreateCache(n)
    \/ \E n \in NetIds : DeleteCache(n)
    \/ Tick

SpecWait ==
    /\ InitCache
    /\ [][NextWait]_vars
    /\ \A t \in Threads : WF_vars(WaitTimeout(t))

(***************************************************************************)
(* resolv_res_nsend and res_nsend, one step per critical section, sleep or *)
(* network exchange.  pc[t] names the next one:                            *)
(*   n_lookup      resolv_cache_lookup                                     *)
(*   n_wait        cv.wait_for inside resolv_cache_lookup                  *)
(*   n_populate    resolv_populate_res_for_net after a cache miss          *)
(*   n_failed      _resolv_cache_query_failed, then return tl[t].ret       *)
(*   tls_status    res_tls_send: the first getStatus                       *)
(*   tls_sleep     res_tls_send: sleep_for(100ms), then getStatus          *)
(*   tls_reread    res_tls_send: the second getStatus of an iteration      *)
(*   tls_dispatch  sDnsTlsDispatcher.query                                 *)
(*   n_stats       resolv_cache_get_resolver_stats                         *)
(*   n_send        the retry loop over send_dg and send_vc                 *)
(*   n_add         resolv_cache_add, then return the answer                *)
(*   done          res_nsend returned tl[t].ret (and tl[t].answer)         *)
(***************************************************************************)
RET_ANSWER == "answer"
RET_ESRCH == "-ESRCH"
RET_ETIMEDOUT == "-ETIMEDOUT"
RET_TERRNO == "-terrno"

RESPONSE_SUCCESS == "success"
RESPONSE_NETWORK_ERROR == "network_error"
RESPONSE_INTERNAL_ERROR == "internal_error"
RESPONSE_LIMIT_ERROR == "limit_error"
Responses == {RESPONSE_SUCCESS, RESPONSE_NETWORK_ERROR, RESPONSE_INTERNAL_ERROR,
              RESPONSE_LIMIT_ERROR}

\* the iterations of the loop of res_tls_send
TLS_POLLS == 42

\* [pc, l]: where the thread goes and its locals
Goto(pc_, l) == [pc |-> pc_, l |-> l]

Return(l, ret, answer) == Goto("done", [l EXCEPT !.ret = ret, !.answer = answer])

\* res_nsend returns -ret after _resolv_cache_query_failed
FailWith(l, ret) == Goto("n_failed", [l EXCEPT !.ret = ret])

\* res_nsend from the test of statp->nscount to its next step
AfterPopulate(l) ==
    IF l.nscount = 0 THEN FailWith(l, RET_ESRCH)
    ELSE IF ~l.use_local THEN Goto("tls_status", l)
    ELSE Goto("n_stats", l)

\* a variant that treats a cache hit as a miss
AfterLookup_ignore_hit(l, status, answer) ==
    LET l1 == [l EXCEPT !.cache_status = status] IN
    IF status # RESOLV_CACHE_UNSUPPORTED THEN Goto("n_populate", l1)
    ELSE AfterPopulate(l1)

\* res_nsend from the return of resolv_cache_lookup to its next step
AfterLookup(l, status, answer) ==
    LET l1 == [l EXCEPT !.cache_status = status] IN
    IF status = RESOLV_CACHE_FOUND THEN Return(l1, RET_ANSWER, answer)
    ELSE IF status # RESOLV_CACHE_UNSUPPORTED THEN Goto("n_populate", l1)
    ELSE AfterPopulate(l1)

\* res_nsend with an answer of resplen > 0 bytes, over TLS or cleartext
GotAnswer(l, answer) ==
    IF l.cache_status = RESOLV_CACHE_NOTFOUND
    THEN Goto("n_add", [l EXCEPT !.ret = RET_ANSWER, !.answer = answer])
    ELSE Return(l, RET_ANSWER, answer)

\* res_tls_send returns: its locals are gone
LeaveTls(l) == [l EXCEPT !.tls_mode = l.status.mode, !.status = NoStatus, !.polls = 0]

\* res_nsend from the return of res_tls_send with resplen <= 0
AfterTlsFailure(l) ==
    IF l.fallback THEN Goto("n_stats", LeaveTls(l))
    ELSE FailWith(LeaveTls(l), RET_ETIMEDOUT)

Step(t, g) ==
    /\ pc' = [pc EXCEPT ![t] = g.pc]
    /\ tl' = [tl EXCEPT ![t] = g.l]

\* resolv_res_nsend up to the call of res_nsend: res_init (no nameserver),
\* then resolv_populate_res_for_net
NsendCall(t, netid, query, flags, use_local) ==
    /\ pc[t] = "idle"
    /\ Step(t, Goto("n_lookup",
                    [NoLocals EXCEPT !.netid = netid, !.query = query,
                                     !.answersize = PACKETSZ, !.flags = flags,
                                     !.use_local = use_local,
                                     !.nscount = IF netid \in DOMAIN cache_list
                                                 THEN cache_list[netid].nscount ELSE 0]))
    /\ UNCHANGED <<now, cache_list, pdns, last_call>>

NsendLookup(t) ==
    /\ pc[t] = "n_lookup"
    /\ \E l \in {tl[t]} :
       \E r \in {resolv_cache_lookup(cache_list, l.netid, l.query, l.answersize, l.flags, now)} :
           /\ cache_list' = r.cl
           /\ IF r.status = LOOKUP_WAIT
              THEN Step(t, Goto("n_wait", [l EXCEPT !.blocked = TRUE]))
              ELSE Step(t, AfterLookup(l, r.status, r.answer))
    /\ UNCHANGED <<now, pdns, last_call>>

NsendWaitEnd(t, timeout) ==
    /\ pc[t] = "n_wait"
    /\ \E l \in {tl[t]} :
       \E ret \in {WaitPredicate(cache_list, l.netid, l.query)} :
           /\ timeout \/ ret
           /\ \E r \in {resolv_cache_lookup_resume(cache_list, l.netid, l.query,
                                                    l.answersize, ret, now, MaxTimeoutCount)} :
                  /\ cache_list' = r.cl
                  /\ Step(t, AfterLookup(l, r.status, r.answer))
    /\ UNCHANGED <<now, pdns, last_call>>

NsendWaitWake(t) == NsendWaitEnd(t, FALSE)

NsendWaitTimeout(t) == NsendWaitEnd(t, TRUE)

NsendPopulate(t) ==
    /\ pc[t] = "n_populate"
    /\ LET l == tl[t] IN
       Step(t, AfterPopulate([l EXCEPT !.nscount = IF l.netid \in DOMAIN cache_list
                                                   THEN cache_list[l.netid].nscount
                                                   ELSE @]))
    /\ UNCHANGED <<now, cache_list, pdns, last_call>>

NsendQueryFailed(t) ==
    /\ pc[t] = "n_failed"
    /\ cache_list' = _resolv_cache_query_failed(cache_list, tl[t].netid, tl[t].query,
                                                tl[t].flags)
    /\ Step(t, Goto("done", tl[t]))
    /\ UNCHANGED <<now, pdns, last_call>>

\* a variant of the first test of res_tls_send that sends OPPORTUNISTIC
\* without a validated server into the polling loop too
AfterFirstStatus_poll_always(l, status) ==
    LET l1 == [l EXCEPT !.status = status, !.first_mode = status.mode,
                        !.first_validated = validatedServers(status) # {}] IN
    IF status.mode = MODE_OFF
    THEN AfterTlsFailure([l1 EXCEPT !.fallback = TRUE])
    ELSE IF validatedServers(status) = {}
    THEN Goto("tls_sleep", l1)
    ELSE Goto("tls_dispatch", l1)

\* res_tls_send from its first getStatus to the loop or the dispatcher
AfterFirstStatus(l, status) ==
    LET l1 == [l EXCEPT !.status = status, !.first_mode = status.mode,
                        !.first_validated = validatedServers(status) # {}] IN
    IF status.mode = MODE_OFF
    THEN AfterTlsFailure([l1 EXCEPT !.fallback = TRUE])
    ELSE IF validatedServers(status) = {}
    THEN IF status.mode = MODE_OPPORTUNISTIC
         THEN AfterTlsFailure([l1 EXCEPT !.fallback = TRUE])
         ELSE Goto("tls_sleep", l1)
    ELSE Goto("tls_dispatch", l1)

TlsGetStatus(t) ==
    /\ pc[t] = "tls_status"
    /\ Step(t, AfterFirstStatus(tl[t], PrivateDnsConfiguration_getStatus(pdns, tl[t].netid)))
    /\ UNCHANGED <<now, cache_list, pdns, last_call>>

\* one iteration of the loop of res_tls_send: after the sleep, the first
\* getStatus; the loop ends after TLS_POLLS iterations with the status
\* res_tls_send read first, which names no validated server
AfterPoll(l, status) ==
    LET l1 == [l EXCEPT !.polls = @ + 1, !.polled = TRUE] IN
    IF validatedServers(status) # {} THEN Goto("tls_reread", [l1 EXCEPT !.observed = TRUE])
    ELSE IF l1.polls < TLS_POLLS THEN Goto("tls_sleep", l1)
    ELSE AfterTlsFailure(l1)

TlsPoll(t) ==
    /\ pc[t] = "tls_sleep"
    /\ Step(t, AfterPoll(tl[t], PrivateDnsConfiguration_getStatus(pdns, tl[t].netid)))
    /\ UNCHANGED <<now, cache_list, pdns, last_call>>

\* the second getStatus of the iteration, the break, and the test after the
\* loop
AfterReread(l, status) ==
    LET l1 == [l EXCEPT !.status = status] IN
    IF validatedServers(status) = {} THEN AfterTlsFailure(l1)
    ELSE Goto("tls_dispatch", l1)

TlsReread(t) ==
    /\ pc[t] = "tls_reread"
    /\ Step(t, AfterReread(tl[t], PrivateDnsConfiguration_getStatus(pdns, tl[t].netid)))
    /\ UNCHANGED <<now, cache_list, pdns, last_call>>

\* a variant of the switch on the response that falls back in either mode
AfterDispatch_fallback_always(l, response, answer) ==
    LET l1 == [l EXCEPT !.response = response, !.upstream = @ + 1,
                        !.tls_answer = IF response = RESPONSE_SUCCESS THEN answer ELSE 0]
    IN
    IF response = RESPONSE_SUCCESS THEN GotAnswer(LeaveTls(l1), answer)
    ELSE IF response \in {RESPONSE_NETWORK_ERROR, RESPONSE_INTERNAL_ERROR}
    THEN AfterTlsFailure([l1 EXCEPT !.fallback = TRUE])
    ELSE AfterTlsFailure(l1)

\* a variant of the switch on the response that, in OPPORTUNISTIC mode, falls
\* back after every error
AfterDispatch_any_error_falls_back(l, response, answer) ==
    LET l1 == [l EXCEPT !.response = response, !.upstream = @ + 1,
                        !.tls_answer = IF response = RESPONSE_SUCCESS THEN answer ELSE 0]
    IN
    IF response = RESPONSE_SUCCESS THEN GotAnswer(LeaveTls(l1), answer)
    ELSE IF l.status.mode = MODE_OPPORTUNISTIC
    THEN AfterTlsFailure([l1 EXCEPT !.fallback = TRUE])
    ELSE AfterTlsFailure(l1)

\* res_tls_send from the return of sDnsTlsDispatcher.query
AfterDispatch(l, response, answer) ==
    LET l1 == [l EXCEPT !.response = response, !.upstream = @ + 1,
                        !.tls_answer = IF response = RESPONSE_SUCCESS THEN answer ELSE 0]
    IN
    IF response = RESPONSE_SUCCESS THEN GotAnswer(LeaveTls(l1), answer)
    ELSE IF l.status.mode = MODE_OPPORTUNISTIC
    THEN IF response \in {RESPONSE_NETWORK_ERROR, RESPONSE_INTERNAL_ERROR}
         THEN AfterTlsFailure([l1 EXCEPT !.fallback = TRUE])
         ELSE AfterTlsFailure(l1)
    ELSE AfterTlsFailure(l1)

\* the query over TLS: the dispatcher answers success with an answer, or
\* with one of its errors
TlsDispatch(t, response, answer) ==
    /\ pc[t] = "tls_dispatch"
    /\ Step(t, AfterDispatch(tl[t], response, answer))
    /\ UNCHANGED <<now, cache_list, pdns, last_call>>

NsendGetStats(t) ==
    /\ pc[t] = "n_stats"
    /\ IF tl[t].netid \in DOMAIN cache_list
       THEN \E r \in {resolv_cache_get_resolver_stats(cache_list, tl[t].netid)} :
                Step(t, Goto("n_send", [tl[t] EXCEPT !.revision_id = r.revision_id,
                                                     !.max_samples = r.params.max_samples,
                                                     !.retry_count = r.params.retry_count]))
       ELSE Step(t, Return(tl[t], RET_ESRCH, 0))
    /\ UNCHANGED <<now, cache_list, pdns, last_call>>

SEND_ANSWER == "answer"
SEND_ERROR == "error"
SEND_NO_ANSWER == "no_answer"
SendOutcomes == {SEND_ANSWER, SEND_ERROR, SEND_NO_ANSWER}

\* a variant that returns -terrno at once
AfterSend_return(l, outcome, answer) ==
    LET l1 == [l EXCEPT !.upstream = @ + 1, !.cleartext = TRUE] IN
    IF outcome = SEND_ANSWER THEN GotAnswer(l1, answer)
    ELSE Return(l1, RET_TERRNO, 0)

\* the retry loop of res_nsend by the way it ends: a server answered
\* (resplen > 0), a send failed (resplen < 0), or no attempt got an answer;
\* the last two return -terrno after _resolv_cache_query_failed
AfterSend(l, outcome, answer) ==
    LET l1 == [l EXCEPT !.upstream = @ + 1, !.cleartext = TRUE] IN
    IF outcome = SEND_ANSWER THEN GotAnswer(l1, answer)
    ELSE FailWith(l1, RET_TERRNO)

NsendSend(t, outcome, answer) ==
    /\ pc[t] = "n_send"
    /\ Step(t, AfterSend(tl[t], outcome, answer))
    /\ UNCHANGED <<now, cache_list, pdns, last_call>>

NsendAdd(t) ==
    /\ pc[t] = "n_add"
    /\ cache_list' = resolv_cache_add(cache_list, tl[t].netid, tl[t].query,
                                      tl[t].answer, now).cl
    /\ Step(t, Goto("done", tl[t]))
    /\ UNCHANGED <<now, pdns, last_call>>

\* the thread is free for its next call
NsendDone(t) ==
    /\ pc[t] = "done"
    /\ Step(t, Goto("idle", NoLocals))
    /\ UNCHANGED <<now, cache_list, pdns, last_call>>

(***************************************************************************)
(* The private DNS configuration changes under the running queries.        *)
(***************************************************************************)
PdnsSet(netId, servers, name) ==
    /\ \E pd \in {PrivateDnsConfiguration_set(pdns, netId, servers, name)} :
           /\ \A v \in DOMAIN pd.validators : pd.validators[v] <= MaxValidators
           /\ pdns' = pd
    /\ UNCHANGED <<now, cache_list, pc, tl, last_call>>

PdnsClear(netId) ==
    /\ pdns' = PrivateDnsConfiguration_clear(pdns, netId)
    /\ UNCHANGED <<now, cache_list, pc, tl, last_call>>

\* a validate_thread: DnsTlsTransport::validate returned success, the result
\* is recorded, and the thread exits unless it has to validate again
Validate(v, success) ==
    /\ v \in DOMAIN pdns.validators
    /\ \E r \in {recordPrivateDnsValidation(pdns, v.server, v.netId, success)} :
       pdns' = [r.pd EXCEPT !.validators = IF r.needs_reeval THEN @ ELSE BagRemove(@, v)]
    /\ UNCHANGED <<now, cache_list, pc, tl, last_call>>

(***************************************************************************)
(* SpecDedup: two threads each send one query through resolv_res_nsend on  *)
(* a network with a cache and a nameserver, private DNS being off.         *)
(***************************************************************************)
\* the cache of a network after resolv_set_nameservers gave it a server
ConfiguredInfo ==
    SetNameserversLocked(create_cache_info, <<"a">>, << >>,
                         [max_samples |-> MaxSamples, retry_count |-> 0])

InitNsend ==
    /\ now = 0
    /\ cache_list = [n \in NetIds |-> ConfiguredInfo]
    /\ pc = [t \in Threads |-> "idle"]
    /\ tl = [t \in Threads |-> NoLocals]
    /\ pdns = PdnsInit
    /\ last_call = NoCall

DedupQueries == {1, 4}
DedupAnswers == {1, 2}

NextDedup ==
    \/ \E t \in Threads, n \in NetIds, q \in DedupQueries : NsendCall(t, n, q, {}, FALSE)
    \/ \E t \in Threads : NsendLookup(t)
    \/ \E t \in Threads : NsendWaitWake(t)
    \/ \E t \in Threads : NsendWaitTimeout(t)
    \/ \E t \in Threads : NsendPopulate(t)
    \/ \E t \in Threads : TlsGetStatus(t)
    \/ \E t \in Threads : NsendGetStats(t)
    \/ \E t \in Threads, o \in SendOutcomes, a \in DedupAnswers : NsendSend(t, o, a)
    \/ \E t \in Threads : NsendAdd(t)
    \/ \E t \in Threads : NsendQueryFailed(t)

SpecDedup == InitNsend /\ [][NextDedup]_vars

(***************************************************************************)
(* SpecTls: one thread sends queries through resolv_res_nsend while the    *)
(* private DNS configuration of the network is set and cleared and its     *)
(* servers are validated.                                                  *)
(***************************************************************************)
TlsThreads == {"t1"}
TlsAddrs == {"a1"}
TlsNames == {"", "h"}
TlsAnswers == {1, 2}

NextTls ==
    \/ \E t \in TlsThreads, n \in NetIds, u \in BOOLEAN : NsendCall(t, n, 1, {}, u)
    \/ \E t \in TlsThreads : NsendLookup(t)
    \/ \E t \in TlsThreads : NsendPopulate(t)
    \/ \E t \in TlsThreads : TlsGetStatus(t)
    \/ \E t \in TlsThreads : TlsPoll(t)
    \/ \E t \in TlsThreads : TlsReread(t)
    \/ \E t \in TlsThreads, r \in Responses, a \in TlsAnswers : TlsDispatch(t, r, a)
    \/ \E t \in TlsThreads : NsendGetStats(t)
    \/ \E t \in TlsThreads, o \in SendOutcomes, a \in TlsAnswers : NsendSend(t, o, a)
    \/ \E t \in TlsThreads : NsendAdd(t)
    \/ \E t \in TlsThreads : NsendQueryFailed(t)
    \/ \E t \in TlsThreads : NsendDone(t)
    \/ \E n \in NetIds, sv \in SUBSET TlsAddrs, name \in TlsNames : PdnsSet(n, sv, name)
    \/ \E n \in NetIds : PdnsClear(n)
    \/ \E v \in DOMAIN pdns.validators, ok \in BOOLEAN : Validate(v, ok)

SpecTls == InitNsend /\ [][NextTls]_vars

(***************************************************************************)
(* SpecNs: the nameservers of a network are set while a thread reads the   *)
(* revision id (as res_nsend does before its retry loop) and later hands   *)
(* in a sample under it, and while the network is deleted and created.     *)
(* res_nsend hands its samples to resolv_cache_add_resolver_stats_sample,  *)
(* which is not part of these sources; StatsAddSample is the call of       *)
(* _resolv_cache_add_resolver_stats_sample that it ends in.                *)
(***************************************************************************)
\* the revision ids the model lets a network reach
MaxRevision == 4

SetNameservers(netid, servers, domains, params) ==
    /\ \E r \in {resolv_set_nameservers(cache_list, netid, servers, domains, params)} :
           /\ \A n \in DOMAIN r.cl : r.cl[n].revision_id <= MaxRevision
           /\ cache_list' = r.cl
           /\ tl' = IF netid \notin DOMAIN cache_list THEN tl
                    ELSE IF r.cl[netid].nameservers # cache_list[netid].nameservers
                    THEN Outdated(tl, netid)
                    ELSE IF r.cl[netid].params.max_samples
                                # cache_list[netid].params.max_samples
                    THEN Outdated(tl, netid)
                    ELSE tl
           /\ last_call' = [NoCall EXCEPT !.op = "set", !.netid = netid, !.ret = r.ret,
                                          !.servers = servers, !.params = params]
    /\ UNCHANGED <<now, pc, pdns>>

\* resolv_cache_get_resolver_stats as res_nsend calls it: without the
\* network the call returns -ESRCH
StatsGet(t, netid) ==
    /\ pc[t] = "idle"
    /\ \E r \in {resolv_cache_get_resolver_stats(cache_list, netid)} :
           IF r.revision_id < 0
           THEN UNCHANGED <<pc, tl>>
           ELSE /\ pc' = [pc EXCEPT ![t] = "s_held"]
                /\ tl' = [tl EXCEPT ![t] = [NoLocals EXCEPT
                                               !.netid = netid,
                                               !.revision_id = r.revision_id,
                                               !.max_samples = r.params.max_samples]]
    /\ last_call' = NoCall
    /\ UNCHANGED <<now, cache_list, pdns>>

StatsAddSample(t, ns, sample) ==
    /\ pc[t] = "s_held"
    /\ cache_list' = _resolv_cache_add_resolver_stats_sample(
                         cache_list, tl[t].netid, tl[t].revision_id, ns, sample,
                         tl[t].max_samples)
    /\ pc' = [pc EXCEPT ![t] = "idle"]
    /\ tl' = [tl EXCEPT ![t] = NoLocals]
    /\ last_call' = NoCall
    /\ UNCHANGED <<now, pdns>>

NsThreads == {"t1"}
NsServerLists ==
    { << >>, <<"a">>, <<"a", "b">>, <<"b", "a">>, <<"a", "a">>,
      <<BAD_SERVER>>, <<"a", BAD_SERVER>>, <<"a", "b", "c", BAD_SERVER>>,
      <<"a", "b", "c", "d">>, <<"d", "c", "b", "a">> }
NsDomains == { << >>, <<"d1", LONG_DOMAIN, "d1", "d2", "d3">> }
NsParams == { [max_samples |-> 1, retry_count |-> 0],
              [max_samples |-> 2, retry_count |-> 3] }
NsSamples == {1}

\* SpecSetNs: the nameservers of a network are set again and again, with
\* lists that do not parse and lists longer than MAXNS among them, while the
\* network is deleted and created
NextSetNs ==
    \/ \E n \in NetIds, sv \in NsServerLists, d \in NsDomains, p \in NsParams :
           SetNameservers(n, sv, d, p)
    \/ \E n \in NetIds : CreateCache(n)
    \/ \E n \in NetIds : DeleteCache(n)

SpecSetNs == InitCache /\ [][NextSetNs]_vars

\* the lists set while a thread holds a revision id
NsStatsLists == { <<"a">>, <<"a", "b">>, <<"b", "a">> }

NextNs ==
    \/ \E n \in NetIds, sv \in NsStatsLists, p \in NsParams :
           SetNameservers(n, sv, << >>, p)
    \/ \E t \in NsThreads, n \in NetIds : StatsGet(t, n)
    \/ \E t \in NsThreads, ns \in 0..(MaxNs - 1), sample \in NsSamples :
           StatsAddSample(t, ns, sample)
    \/ \E n \in NetIds : CreateCache(n)
    \/ \E n \in NetIds : DeleteCache(n)

SpecNs == InitCache /\ [][NextNs]_vars

(***************************************************************************)
(* SpecSend: the retry loop of res_nsend, one send_dg or send_vc at a      *)
(* step.  What a try meets on the network (no socket, a timeout, a         *)
(* truncated answer, ...) is an input of the step; errno after a failed    *)
(* system call is AN_ERRNO.  android_net_res_stats_get_usable_servers and  *)
(* resolv_cache_add_resolver_stats_sample are not part of these sources:   *)
(* the usable servers are an input (at least one), and a sample goes to    *)
(* _resolv_cache_add_resolver_stats_sample with the index of the server    *)
(* of the try.                                                             *)
(***************************************************************************)
ETIMEDOUT == "ETIMEDOUT"
ECONNREFUSED == "ECONNREFUSED"
EMSGSIZE == "EMSGSIZE"
AN_ERRNO == "ENETUNREACH"

\* res_nsend returns -terrno
NegErrno(terrno) == "-" \o terrno

\* send_dg by the way it ends
DG_UNSUPPORTED == "dg_socket_unsupported"
DG_SOCKET_ERROR == "dg_socket_error"
DG_MARK_ERROR == "dg_setsockopt_error"
DG_NOT_SENT == "dg_bind_connect_send_error"
DG_TIMEOUT == "dg_poll_timeout"
DG_NOT_RECEIVED == "dg_poll_recvfrom_error"
DG_UNDERSIZED == "dg_undersized"
DG_REJECTED == "dg_rejected"
DG_TRUNCATED == "dg_truncated"
DG_ANSWER == "dg_answer"
DgOutcomes == {DG_UNSUPPORTED, DG_SOCKET_ERROR, DG_MARK_ERROR, DG_NOT_SENT, DG_TIMEOUT,
               DG_NOT_RECEIVED, DG_UNDERSIZED, DG_REJECTED, DG_TRUNCATED, DG_ANSWER}

\* send_vc by the way it ends
VC_UNSUPPORTED == "vc_socket_unsupported"
VC_SOCKET_ERROR == "vc_socket_setsockopt_error"
VC_FAILED == "vc_bind_connect_write_read_error"
VC_TOO_SHORT == "vc_undersized"
VC_ANSWER == "vc_answer"
VcOutcomes == {VC_UNSUPPORTED, VC_SOCKET_ERROR, VC_FAILED, VC_TOO_SHORT, VC_ANSWER}

\* [resplen, terrno, v_circuit, gotsomewhere] of send_dg; resplen is -1, 0
\* or 1 for a negative, a zero and a positive return value
send_dg(outcome, terrno, v_circuit, gotsomewhere) ==
    LET r == [resplen |-> 0, terrno |-> terrno, v_circuit |-> v_circuit,
              gotsomewhere |-> gotsomewhere]
    IN  IF outcome = DG_SOCKET_ERROR THEN [r EXCEPT !.resplen = -1, !.terrno = AN_ERRNO]
        ELSE IF outcome = DG_MARK_ERROR THEN [r EXCEPT !.resplen = -1]
        ELSE IF outcome \in {DG_TIMEOUT, DG_REJECTED} THEN [r EXCEPT !.gotsomewhere = TRUE]
        ELSE IF outcome = DG_UNDERSIZED
        THEN [r EXCEPT !.gotsomewhere = TRUE, !.terrno = EMSGSIZE]
        ELSE IF outcome = DG_TRUNCATED
        THEN [r EXCEPT !.gotsomewhere = TRUE, !.v_circuit = TRUE, !.resplen = 1]
        ELSE IF outcome = DG_ANSWER THEN [r EXCEPT !.gotsomewhere = TRUE, !.resplen = 1]
        ELSE r

\* [resplen, terrno] of send_vc
send_vc(outcome, terrno) ==
    IF outcome = VC_SOCKET_ERROR THEN [resplen |-> -1, terrno |-> AN_ERRNO]
    ELSE IF outcome = VC_FAILED THEN [resplen |-> 0, terrno |-> AN_ERRNO]
    ELSE IF outcome = VC_TOO_SHORT THEN [resplen |-> 0, terrno |-> EMSGSIZE]
    ELSE IF outcome = VC_ANSWER THEN [resplen |-> 1, terrno |-> terrno]
    ELSE [resplen |-> 0, terrno |-> terrno]

\* the usable servers with all but the selectedServer'th of them disabled
RECURSIVE UsableLoop(_, _, _, _, _)
\* the loop of res_set_usable_server from server ns on; usable_servers is the
\* set of the indices whose flag is true
UsableLoop(selectedServer, nscount, usable_servers, ns, usableIndex) ==
    IF ns >= nscount THEN usable_servers
    ELSE LET Rest(index) ==
                 UsableLoop(selectedServer, nscount,
                            IF index # selectedServer THEN usable_servers \ {ns}
                            ELSE usable_servers,
                            ns + 1, index)
         IN  Rest(IF ns \in usable_servers THEN usableIndex + 1 ELSE usableIndex)

\* res_set_usable_server with the servers counted from 0
res_set_usable_server_from_zero(selectedServer, nscount, usable_servers) ==
    UsableLoop(selectedServer + 1, nscount, usable_servers, 0, 0)

res_set_usable_server(selectedServer, nscount, usable_servers) ==
    UsableLoop(selectedServer, nscount, usable_servers, 0, 0)

\* the end of an iteration with one attempt more than retryTimes
NextTry_extra_attempt(l) ==
    IF l.ns + 1 < l.nscount THEN Goto("s_loop", [l EXCEPT !.ns = @ + 1])
    ELSE IF l.attempt + 1 <= l.retryTimes
    THEN Goto("s_loop", [l EXCEPT !.ns = 0, !.attempt = @ + 1])
    ELSE Goto("s_exhausted", [l EXCEPT !.ns = 0, !.attempt = @ + 1])

\* the end of an iteration of the loop over the servers: ++ns, and after
\* the last server ++attempt
NextTry(l) ==
    IF l.ns + 1 < l.nscount THEN Goto("s_loop", [l EXCEPT !.ns = @ + 1])
    ELSE IF l.attempt + 1 < l.retryTimes
    THEN Goto("s_loop", [l EXCEPT !.ns = 0, !.attempt = @ + 1])
    ELSE Goto("s_exhausted", [l EXCEPT !.ns = 0, !.attempt = @ + 1])

\* res_nsend from send_dg's or send_vc's return to the end of the iteration
AfterTry(l, resplen, fallbackTCP, answer) ==
    IF resplen = 0 THEN NextTry(l)
    ELSE IF fallbackTCP THEN Goto("s_loop", l)
    ELSE IF resplen < 0 THEN FailWith(l, NegErrno(l.terrno))
    ELSE GotAnswer(l, answer)

\* shouldRecordStats true in every attempt
shouldRecordStats_every_attempt(l) == l.attempt >= 0

\* shouldRecordStats of an iteration, read before send_vc or send_dg
shouldRecordStats(l) == l.attempt = 0

\* the sample of a try (the time, the rcode and the delay of every try are
\* the same here)
TrySample == 1

\* the end of an iteration that records its sample: the server's ring of the
\* network gets it under the revision id that res_nsend read
RecordStats(cl, l) ==
    IF shouldRecordStats(l)
    THEN _resolv_cache_add_resolver_stats_sample(cl, l.netid, l.revision_id, l.ns,
                                                 TrySample, l.max_samples)
    ELSE cl

\* one iteration over TCP that leaves attempt alone
TryVc_keep_attempt(l, outcome, answer) ==
    LET r == send_vc(outcome, l.terrno)
        l1 == [l EXCEPT !.terrno = r.terrno,
                        !.useTcp = IF ~l.large /\ r.resplen <= 0 /\ l.tc_udp_tcp
                                   THEN FALSE ELSE @,
                        !.tried = Append(@, outcome), !.contacted = @ \cup {l.ns},
                        !.tried_ns = Append(@, l.ns),
                        !.tried_attempt = Append(@, l.attempt),
                        !.sampled = IF shouldRecordStats(l) THEN Append(@, l.ns) ELSE @,
                        !.upstream = @ + 1, !.cleartext = TRUE]
    IN  AfterTry(l1, r.resplen, FALSE, answer)

\* one iteration over TCP
TryVc(l, outcome, answer) ==
    LET r == send_vc(outcome, l.terrno)
        l1 == [l EXCEPT !.attempt = l.retryTimes, !.terrno = r.terrno,
                        !.useTcp = IF ~l.large /\ r.resplen <= 0 /\ l.tc_udp_tcp
                                   THEN FALSE ELSE @,
                        !.tried = Append(@, outcome), !.contacted = @ \cup {l.ns},
                        !.tried_ns = Append(@, l.ns),
                        !.tried_attempt = Append(@, l.attempt),
                        !.sampled = IF shouldRecordStats(l) THEN Append(@, l.ns) ELSE @,
                        !.upstream = @ + 1, !.cleartext = TRUE]
    IN  AfterTry(l1, r.resplen, FALSE, answer)

\* one iteration over UDP
TryDg(l, outcome, answer) ==
    LET r == send_dg(outcome, l.terrno, l.useTcp, l.gotsomewhere)
        l1 == [l EXCEPT !.terrno = r.terrno, !.useTcp = r.v_circuit,
                        !.gotsomewhere = r.gotsomewhere,
                        !.tried = Append(@, outcome), !.contacted = @ \cup {l.ns},
                        !.tried_ns = Append(@, l.ns),
                        !.tried_attempt = Append(@, l.attempt),
                        !.sampled = IF shouldRecordStats(l) THEN Append(@, l.ns) ELSE @,
                        !.upstream = @ + 1, !.cleartext = TRUE]
    IN  AfterTry(l1, r.resplen, r.v_circuit, answer)

\* res_nsend from the usable servers to the loop
EnterLoop(l, large, tc_udp_tcp, usable_servers, id) ==
    LET no_retry == ANDROID_RESOLV_NO_RETRY \in l.flags
        usableServersCount == Cardinality(usable_servers)
        l1 == [l EXCEPT
                  !.usable = IF no_retry /\ usableServersCount > 1
                             THEN res_set_usable_server((id % usableServersCount) + 1,
                                                        l.nscount, usable_servers)
                             ELSE usable_servers,
                  !.usableServersCount = usableServersCount, !.contacted = {},
                  !.sampled = << >>,
                  !.retryTimes = IF no_retry THEN 1 ELSE l.retry_count,
                  !.large = large, !.tc_udp_tcp = tc_udp_tcp, !.useTcp = large,
                  !.gotsomewhere = FALSE, !.terrno = ETIMEDOUT,
                  !.attempt = 0, !.ns = 0]
    IN  IF l1.retryTimes > 0 THEN Goto("s_loop", l1) ELSE Goto("s_exhausted", l1)

SendLoopEnter(t, large, tc_udp_tcp, usable_servers, id) ==
    /\ pc[t] = "n_send"
    /\ usable_servers \subseteq 0..(tl[t].nscount - 1)
    /\ Step(t, EnterLoop(tl[t], large, tc_udp_tcp, usable_servers, id))
    /\ UNCHANGED <<now, cache_list, pdns, last_call>>

\* a server that is not usable is passed over
SendSkip(t) ==
    /\ pc[t] = "s_loop"
    /\ tl[t].ns \notin tl[t].usable
    /\ Step(t, NextTry(tl[t]))
    /\ UNCHANGED <<now, cache_list, pdns, last_call>>

SendTryVc(t, outcome, answer) ==
    /\ pc[t] = "s_loop"
    /\ tl[t].ns \in tl[t].usable
    /\ tl[t].useTcp
    /\ Step(t, TryVc(tl[t], outcome, answer))
    /\ cache_list' = RecordStats(cache_list, tl[t])
    /\ UNCHANGED <<now, pdns, last_call>>

SendTryDg(t, outcome, answer) ==
    /\ pc[t] = "s_loop"
    /\ tl[t].ns \in tl[t].usable
    /\ ~tl[t].useTcp
    /\ Step(t, TryDg(tl[t], outcome, answer))
    /\ cache_list' = RecordStats(cache_list, tl[t])
    /\ UNCHANGED <<now, pdns, last_call>>

\* res_nsend after its loops, with the rule of UDP for TCP as well
AfterLoops_udp_rule(l) ==
    FailWith(l, NegErrno(IF l.gotsomewhere THEN ETIMEDOUT ELSE ECONNREFUSED))

\* res_nsend after its loops
AfterLoops(l) ==
    FailWith(l, NegErrno(IF l.useTcp THEN l.terrno
                         ELSE IF l.gotsomewhere THEN ETIMEDOUT ELSE ECONNREFUSED))

SendExhausted(t) ==
    /\ pc[t] = "s_exhausted"
    /\ Step(t, AfterLoops([tl[t] EXCEPT !.exhausted = TRUE]))
    /\ UNCHANGED <<now, cache_list, pdns, last_call>>

\* the query, its answer and the network of SpecSend: two servers and the
\* default retry count
SendInfo ==
    SetNameserversLocked(create_cache_info, <<"a", "b">>, << >>,
                         [max_samples |-> MaxSamples, retry_count |-> 0])

InitSend ==
    /\ now = 0
    /\ cache_list = [n \in NetIds |-> SendInfo]
    /\ pc = [t \in Threads |-> "idle"]
    /\ tl = [t \in Threads |-> NoLocals]
    /\ pdns = PdnsInit
    /\ last_call = NoCall

SendThreads == {"t1"}
SendFlags == {{}, {ANDROID_RESOLV_NO_RETRY}}
\* the values of hp->id
SendIds == 0..3

NextSend ==
    \/ \E t \in SendThreads, n \in NetIds, f \in SendFlags : NsendCall(t, n, 1, f, TRUE)
    \/ \E t \in SendThreads : NsendLookup(t)
    \/ \E t \in SendThreads : NsendPopulate(t)
    \/ \E t \in SendThreads : NsendGetStats(t)
    \/ \E t \in SendThreads, large \in BOOLEAN, tc \in BOOLEAN,
          u \in SUBSET (0..1) \ {{}}, id \in SendIds : SendLoopEnter(t, large, tc, u, id)
    \/ \E t \in SendThreads : SendSkip(t)
    \/ \E t \in SendThreads, o \in VcOutcomes : SendTryVc(t, o, 1)
    \/ \E t \in SendThreads, o \in DgOutcomes : SendTryDg(t, o, 1)
    \/ \E t \in SendThreads : SendExhausted(t)
    \/ \E t \in SendThreads : NsendAdd(t)
    \/ \E t \in SendThreads : NsendQueryFailed(t)
    \/ \E t \in SendThreads : NsendDone(t)

SpecSend == InitSend /\ [][NextSend]_vars

(***************************************************************************)
(* SpecNoStore: queries with and without ANDROID_RESOLV_NO_CACHE_STORE     *)
(* and ANDROID_RESOLV_NO_CACHE_LOOKUP meet in res_nsend, over cleartext,   *)
(* while the time passes and the entries of the cache expire.              *)
(***************************************************************************)
NoStoreFlags ==
    { {}, {ANDROID_RESOLV_NO_CACHE_STORE}, {ANDROID_RESOLV_NO_CACHE_LOOKUP},
      {ANDROID_RESOLV_NO_CACHE_STORE, ANDROID_RESOLV_NO_CACHE_LOOKUP} }
NoStoreAnswers == {2, 3}

NextNoStore ==
    \/ \E t \in Threads, n \in NetIds, f \in NoStoreFlags : NsendCall(t, n, 1, f, TRUE)
    \/ \E t \in Threads : NsendLookup(t)
    \/ \E t \in Threads : NsendWaitWake(t)
    \/ \E t \in Threads : NsendWaitTimeout(t)
    \/ \E t \in Threads : NsendPopulate(t)
    \/ \E t \in Threads : NsendGetStats(t)
    \/ \E t \in Threads, o \in SendOutcomes, a \in NoStoreAnswers : NsendSend(t, o, a)
    \/ \E t \in Threads : NsendAdd(t)
    \/ \E t \in Threads : NsendQueryFailed(t)
    \/ \E t \in Threads : NsendDone(t)
    \/ Tick

SpecNoStore == InitNsend /\ [][NextNoStore]_vars

(***************************************************************************)
(* Properties of the cache, checked under SpecCache.                       *)
(***************************************************************************)
Caches == {cache_list[n].cache : n \in DOMAIN cache_list}

StoredEntries(cache) == {cache.mru_list[i] : i \in 1..Len(cache.mru_list)}

\* C5: in every reachable state the pending-request list of every network
\* holds at most one record per query hash.
C5_OnePendingPerHash ==
    \A cache \in Caches :
        \A i, j \in 1..Len(cache.pending_requests) :
            cache.pending_requests[i] = cache.pending_requests[j] => i = j

\* a lookup found the pending record of another lookup for the same hash and
\* waits on it, while a record for a second hash is pending too
C5_Witness ==
    \E t \in Threads :
        /\ pc[t] = "wait"
        /\ tl[t].netid \in DOMAIN cache_list
        /\ LET cache == cache_list[tl[t].netid].cache IN
           /\ HasPending(cache, entry_init_key(tl[t].query))
           /\ Len(cache.pending_requests) >= 2

\* C6: in every reachable state the number of entries of every cache is at
\* most its capacity max_entries.
C6_EntriesWithinCapacity ==
    \A cache \in Caches :
        /\ cache.num_entries <= cache.max_entries
        /\ Len(cache.mru_list) <= cache.max_entries

\* C7 as stated: between calls, now <= e.expires for every stored entry e.
C7_NowBeforeExpiry ==
    \A cache \in Caches : \A e \in StoredEntries(cache) : now <= e.expires

\* C7, amended: expiry is lazy.  An entry is linked with now < e.expires, and
\* a lookup returns RESOLV_CACHE_FOUND only from an entry with
\* now < e.expires, which it leaves at the head of the MRU list; an entry
\* that is not looked up may stay stored after its expiry.
C7_FreshWhenInsertedOrFound ==
    /\ (last_call.op = "add" /\ TTLTable[last_call.answer] > 0) =>
           LET e == cache_list[last_call.netid].cache.mru_list[1] IN
           /\ e.query = last_call.query
           /\ e.answer = last_call.answer
           /\ e.expires = now + TTLTable[last_call.answer]
           /\ now < e.expires
    /\ last_call.op = "lookup" =>
           LET e == cache_list[last_call.netid].cache.mru_list[1] IN
           /\ entry_equals(e, entry_init_key(last_call.query))
           /\ e.answer = last_call.answer
           /\ now < e.expires

\* a lookup returned RESOLV_CACHE_FOUND while another stored entry is past
\* its expiry
C7_Witness ==
    /\ last_call.op = "lookup"
    /\ \E e \in StoredEntries(cache_list[last_call.netid].cache) : now > e.expires

\* C3: if add(n, q, a) returned 0 for an answer with a TTL above 0, a lookup
\* of q on n issued next, with a buffer of PACKETSZ bytes and no flag,
\* returns RESOLV_CACHE_FOUND with the answer a.
C3_AddThenLookupFound ==
    (last_call.op = "add" /\ TTLTable[last_call.answer] > 0) =>
        LET r == resolv_cache_lookup(cache_list, last_call.netid, last_call.query,
                                     PACKETSZ, {}, now)
        IN  /\ r.status = RESOLV_CACHE_FOUND
            /\ r.answer = last_call.answer

(***************************************************************************)
(* Properties of waiting lookups, checked under SpecWait.                  *)
(***************************************************************************)
\* the cache of the network holds an entry for the query of t that is not stale
HoldsFreshEntry(t) ==
    /\ find_named_cache_locked(cache_list, tl[t].netid)
    /\ \E e \in StoredEntries(cache_list[tl[t].netid].cache) :
           /\ entry_equals(e, entry_init_key(tl[t].query))
           /\ now < e.expires

C1_ExactlyOneUpstream ==
    \A t, u \in Threads :
        (/\ t # u
         /\ pc[t] = "done" /\ pc[u] = "done"
         /\ tl[t].netid = tl[u].netid /\ tl[t].query = tl[u].query
         /\ tl[u].blocked) =>
            /\ tl[t].upstream + tl[u].upstream = 1
            /\ tl[t].ret = tl[u].ret
            /\ tl[t].answer = tl[u].answer

\* C1, amended: a call that finds a pending request for its query waits and
\* sends nothing upstream while it waits.  When it wakes it looks the query
\* up again: on RESOLV_CACHE_FOUND it returns the answer that the other call
\* got from its one upstream query and stored, and sends nothing upstream
\* itself; otherwise (the other call failed, or its answer was not stored
\* or is not found) it sends its own upstream query.
C1_WaiterReusesAnswerOrAsks ==
    \A t \in Threads :
        tl[t].blocked =>
            /\ pc[t] = "n_wait" => tl[t].upstream = 0
            /\ (pc[t] = "done" /\ tl[t].cache_status = RESOLV_CACHE_FOUND) =>
                   /\ tl[t].upstream = 0
                   /\ tl[t].ret = RET_ANSWER
                   /\ \E u \in Threads \ {t} :
                          /\ pc[u] = "done"
                          /\ tl[u].upstream = 1
                          /\ tl[u].ret = RET_ANSWER
                          /\ tl[u].answer = tl[t].answer
            /\ (pc[t] = "done" /\ tl[t].cache_status # RESOLV_CACHE_FOUND) =>
                   tl[t].upstream = 1

\* a call waited, found the answer of the other call and returned it
C1_Witness ==
    \E t \in Threads :
        /\ tl[t].blocked
        /\ pc[t] = "done"
        /\ tl[t].cache_status = RESOLV_CACHE_FOUND
        /\ tl[t].upstream = 0
        /\ \E u \in Threads \ {t} : tl[u].upstream = 1 /\ tl[u].answer = tl[t].answer

(***************************************************************************)
(* Properties of res_tls_send, checked under SpecTls.                      *)
(***************************************************************************)
\* C2: res_tls_send sets *fallback only while the status it holds is not
\* STRICT, and a call without USE_LOCAL_NAMESERVERS reaches send_dg /
\* send_vc only with *fallback set: a call whose res_tls_send ended with a
\* STRICT status sends no cleartext query.
C2_StrictNeverFallsBack ==
    \A t \in Threads :
        /\ tl[t].fallback => tl[t].tls_mode \in {MODE_OFF, MODE_OPPORTUNISTIC}
        /\ (tl[t].cleartext /\ ~tl[t].use_local) => tl[t].fallback
        /\ tl[t].tls_mode = MODE_STRICT => ~tl[t].cleartext

\* a STRICT call whose TLS query failed with network_error returned
\* -ETIMEDOUT without a cleartext query
C2_Witness ==
    \E t \in Threads :
        /\ pc[t] = "done"
        /\ tl[t].tls_mode = MODE_STRICT
        /\ tl[t].response = RESPONSE_NETWORK_ERROR
        /\ tl[t].ret = RET_ETIMEDOUT
        /\ ~tl[t].fallback
        /\ ~tl[t].cleartext

\* C8: after a TLS query in OPPORTUNISTIC mode, success returns the answer
\* of the dispatcher, network_error and internal_error set *fallback (the
\* call goes on to the cleartext path), and any other response fails the
\* call with -ETIMEDOUT, without fallback and without a cleartext query.
C8_OpportunisticOutcome ==
    \A t \in Threads :
        (tl[t].tls_mode = MODE_OPPORTUNISTIC /\ tl[t].response # "") =>
            /\ tl[t].response = RESPONSE_SUCCESS =>
                   /\ pc[t] \in {"n_add", "done"}
                   /\ tl[t].ret = RET_ANSWER
                   /\ tl[t].answer = tl[t].tls_answer
                   /\ ~tl[t].fallback /\ ~tl[t].cleartext
            /\ tl[t].response \in {RESPONSE_NETWORK_ERROR, RESPONSE_INTERNAL_ERROR} =>
                   /\ tl[t].fallback
                   /\ pc[t] \in {"n_stats", "n_send", "n_add", "n_failed", "done"}
            /\ tl[t].response \notin {RESPONSE_SUCCESS, RESPONSE_NETWORK_ERROR,
                                      RESPONSE_INTERNAL_ERROR} =>
                   /\ pc[t] \in {"n_failed", "done"}
                   /\ tl[t].ret = RET_ETIMEDOUT
                   /\ ~tl[t].fallback /\ ~tl[t].cleartext

\* an OPPORTUNISTIC call whose TLS query failed with internal_error was
\* answered over cleartext
C8_Witness ==
    \E t \in Threads :
        /\ pc[t] = "done"
        /\ tl[t].tls_mode = MODE_OPPORTUNISTIC
        /\ tl[t].response = RESPONSE_INTERNAL_ERROR
        /\ tl[t].cleartext
        /\ tl[t].ret = RET_ANSWER

\* C9: a call whose res_tls_send first reads the mode OFF, or OPPORTUNISTIC
\* with no validated server, has *fallback set in that same step: it never
\* enters the polling loop and never queries over TLS.
C9_FallbackWithoutWaiting ==
    \A t \in Threads :
        (\/ tl[t].first_mode = MODE_OFF
         \/ tl[t].first_mode = MODE_OPPORTUNISTIC /\ ~tl[t].first_validated) =>
            /\ tl[t].fallback
            /\ ~tl[t].polled /\ tl[t].polls = 0
            /\ tl[t].response = ""
            /\ pc[t] \notin {"tls_status", "tls_sleep", "tls_reread", "tls_dispatch"}

\* an OPPORTUNISTIC call found no validated server and went on to cleartext
C9_Witness ==
    \E t \in Threads :
        /\ tl[t].first_mode = MODE_OPPORTUNISTIC
        /\ ~tl[t].first_validated
        /\ tl[t].cleartext
        /\ pc[t] = "done"

\* C10 as stated, its second part: a STRICT call that found no validated
\* server at first, and then saw one in a poll, queries over TLS (the
\* status it holds at the end is STRICT too).
C10_DispatchOnceObserved ==
    \A t \in Threads :
        (/\ tl[t].first_mode = MODE_STRICT
         /\ ~tl[t].first_validated
         /\ tl[t].observed
         /\ tl[t].tls_mode = MODE_STRICT
         /\ pc[t] \notin {"tls_reread", "tls_dispatch"}) =>
            tl[t].response # ""

(***************************************************************************)
(* Properties of PrivateDnsConfiguration, checked under SpecTls.           *)
(***************************************************************************)
\* C11: every set(netId, servers, name) leaves the mode of the network
\* STRICT iff name is not empty, OPPORTUNISTIC iff name is empty and servers
\* is not, and OFF otherwise; a network turned OFF has no tracker, any
\* other has one.
C11_SetChoosesMode ==
    [][\A n \in NetIds, sv \in SUBSET TlsAddrs, name \in TlsNames :
           PdnsSet(n, sv, name) =>
               /\ n \in DOMAIN pdns'.modes
               /\ pdns'.modes[n] = MODE_STRICT <=> name # ""
               /\ pdns'.modes[n] = MODE_OPPORTUNISTIC <=> (name = "" /\ sv # {})
               /\ pdns'.modes[n] = MODE_OFF <=> (name = "" /\ sv = {})
               /\ pdns'.modes[n] = MODE_OFF <=> n \notin DOMAIN pdns'.transports]_vars

\* a network whose server is still being validated was turned OFF and has
\* no tracker
C11_Witness ==
    \E v \in DOMAIN pdns.validators :
        /\ v.netId \in DOMAIN pdns.modes
        /\ pdns.modes[v.netId] = MODE_OFF
        /\ v.netId \notin DOMAIN pdns.transports

\* the tracker of the network of v has no entry for the server of v, or has
\* one under its address for a server that differs from it
StaleValidation(v) ==
    IF v.netId \notin DOMAIN pdns.transports THEN FALSE
    ELSE IF v.server.addr \notin DOMAIN pdns.transports[v.netId] THEN TRUE
    ELSE pdns.transports[v.netId][v.server.addr].server # v.server

\* C12: a validation result recorded for a server that is no longer in the
\* tracker of its network, or whose entry changed, leaves every tracker as
\* it was: no entry is added and none is overwritten.
C12_StaleResultLeavesTracker ==
    [][\A v \in DOMAIN pdns.validators, ok \in BOOLEAN :
           (StaleValidation(v) /\ Validate(v, ok)) =>
               pdns'.transports = pdns.transports]_vars

\* the threads that validate v
Validators(pd, v) == IF v \in DOMAIN pd.validators THEN pd.validators[v] ELSE 0

\* the Validation recorded for the address of the server of v; "" if none
ValidationOf(pd, v) ==
    IF v.netId \notin DOMAIN pd.transports THEN ""
    ELSE IF v.server.addr \notin DOMAIN pd.transports[v.netId] THEN ""
    ELSE pd.transports[v.netId][v.server.addr].validation

ServerSet(servers) == {servers[i] : i \in DOMAIN servers}

\* the call before this step was resolv_set_nameservers(netid, servers', _,
\* params), it returned 0, and servers' has the servers of servers
SetBefore(netid, servers, params) ==
    /\ last_call.op = "set"
    /\ last_call.netid = netid
    /\ last_call.ret = "0"
    /\ last_call.params = params
    /\ ServerSet(last_call.servers) = ServerSet(servers)

\* C14 as stated: a second resolv_set_nameservers in succession on the same
\* network, with the same servers in any order and the same params, leaves
\* the revision id where the first call left it.
C14_SecondSetKeepsRevision ==
    [][\A n \in NetIds, sv \in NsServerLists, d \in NsDomains, p \in NsParams :
           (SetBefore(n, sv, p) /\ SetNameservers(n, sv, d, p))
               => cache_list'[n].revision_id = cache_list[n].revision_id]_vars

\* C14: a second resolv_set_nameservers in succession on the same network,
\* with the same params and with lists whose first MAXNS servers are the
\* same in any order, leaves the revision id where the first call left it.
C14_SecondSetKeepsRevisionWithinMaxNs ==
    [][\A n \in NetIds, sv \in NsServerLists, d \in NsDomains, p \in NsParams :
           (/\ SetBefore(n, sv, p)
            /\ ServerSet(filter_nameservers(last_call.servers))
                   = ServerSet(filter_nameservers(sv))
            /\ SetNameservers(n, sv, d, p))
               => cache_list'[n].revision_id = cache_list[n].revision_id]_vars

\* two calls in succession with the same servers in another order, the
\* second of which returned 0 as well, on a network with two servers
C14_Witness ==
    /\ last_call.op = "set"
    /\ last_call.ret = "0"
    /\ last_call.servers = <<"b", "a">>
    /\ last_call.netid \in DOMAIN cache_list
    /\ cache_list[last_call.netid].nameservers = <<"a", "b">>
    /\ cache_list[last_call.netid].revision_id = 2

\* some server of the list is not a numeric address
Unparsable(servers) == \E i \in 1..Len(servers) : servers[i] = BAD_SERVER

\* C15 as stated: a resolv_set_nameservers with a server that does not parse
\* returns -EINVAL, one on an unknown network returns -ENONET, and either
\* leaves every network as it was.
C15_RejectedSetChangesNothing ==
    [][\A n \in NetIds, sv \in NsServerLists, d \in NsDomains, p \in NsParams :
           SetNameservers(n, sv, d, p)
               => /\ Unparsable(sv)
                      => (last_call'.ret = "-EINVAL" /\ cache_list' = cache_list)
                  /\ n \notin DOMAIN cache_list
                      => (last_call'.ret = "-ENONET" /\ cache_list' = cache_list)]_vars

\* C15: a resolv_set_nameservers with a server among the first MAXNS of its
\* list that does not parse returns -EINVAL, also on an unknown network;
\* otherwise, on an unknown network, it returns -ENONET; either leaves the
\* servers, stats, params, search domains and revision id of every network
\* as they were.
C15_RejectedSetWithinMaxNsChangesNothing ==
    [][\A n \in NetIds, sv \in NsServerLists, d \in NsDomains, p \in NsParams :
           SetNameservers(n, sv, d, p)
               => /\ Unparsable(filter_nameservers(sv))
                      => (last_call'.ret = "-EINVAL" /\ cache_list' = cache_list)
                  /\ (n \notin DOMAIN cache_list /\ ~Unparsable(filter_nameservers(sv)))
                      => (last_call'.ret = "-ENONET" /\ cache_list' = cache_list)
                  /\ last_call'.ret \in {"-EINVAL", "-ENONET"}
                      => cache_list' = cache_list]_vars

\* a call was rejected with -EINVAL on a network that has servers, samples
\* limits and search domains
C15_Witness ==
    /\ last_call.op = "set"
    /\ last_call.ret = "-EINVAL"
    /\ last_call.netid \in DOMAIN cache_list
    /\ cache_list[last_call.netid].nscount = MaxNs
    /\ cache_list[last_call.netid].search_domains # << >>
    /\ cache_list[last_call.netid].revision_id > 0

\* C16: a resolv_set_nameservers with the servers the network has and another
\* max_samples leaves sample_count = sample_next = 0 for every server of the
\* network and a greater revision id; with the same max_samples as well it
\* leaves the samples of every server as they were.
C16_MaxSamplesChangeClearsAllStats ==
    [][\A n \in NetIds, sv \in NsStatsLists, p \in NsParams :
           (/\ n \in DOMAIN cache_list
            /\ ServerSet(sv) = ServerSet(cache_list[n].nameservers)
            /\ SetNameservers(n, sv, << >>, p))
               => IF p.max_samples # cache_list[n].params.max_samples
                  THEN /\ \A i \in 0..(cache_list[n].nscount - 1) :
                              /\ cache_list'[n].nsstats[i].sample_count = 0
                              /\ cache_list'[n].nsstats[i].sample_next = 0
                       /\ cache_list'[n].revision_id > cache_list[n].revision_id
                  ELSE cache_list'[n].nsstats = cache_list[n].nsstats]_vars

\* C17: _resolv_cache_add_resolver_stats_sample leaves every ring as it was
\* when the network does not exist or has another revision id than the
\* submitted one, and when the submitted revision id was read before the
\* servers or max_samples of the network changed or the network was
\* destroyed, whatever ran in between.
C17_OutdatedSampleDiscarded ==
    [][\A t \in NsThreads, ns \in 0..(MaxNs - 1), sample \in NsSamples :
           StatsAddSample(t, ns, sample)
               => /\ (\/ tl[t].netid \notin DOMAIN cache_list
                      \/ cache_list[tl[t].netid].revision_id # tl[t].revision_id)
                         => cache_list' = cache_list
                  /\ tl[t].outdated => cache_list' = cache_list]_vars

(***************************************************************************)
(* Properties of the retry loop of res_nsend, checked under SpecSend.      *)
(***************************************************************************)
\* a try got somewhere: its poll timed out or it received a datagram
GotSomewhere(tried) ==
    \E i \in DOMAIN tried :
        tried[i] \in {DG_TIMEOUT, DG_REJECTED, DG_UNDERSIZED, DG_TRUNCATED, DG_ANSWER}

\* the tries that leave an errno, and the errno of the last of them
\* (ETIMEDOUT when there is none)
LeavesErrno == {DG_SOCKET_ERROR, DG_UNDERSIZED, VC_SOCKET_ERROR, VC_FAILED, VC_TOO_SHORT}

LastErrno(tried) ==
    LET I == {i \in DOMAIN tried : tried[i] \in LeavesErrno} IN
    IF I = {} THEN ETIMEDOUT
    ELSE IF tried[CHOOSE i \in I : \A j \in I : j <= i] \in {DG_UNDERSIZED, VC_TOO_SHORT}
    THEN EMSGSIZE
    ELSE AN_ERRNO

\* res_nsend ran out of attempts and is about to return tl[t].ret
Exhausted(t) == pc[t] = "n_failed" /\ tl[t].exhausted

\* C18 as stated: when the loop ran out of attempts, res_nsend returns
\* -ETIMEDOUT if a try got somewhere and -ECONNREFUSED if none did, over UDP
\* and over TCP.
C18_ExhaustedErrno ==
    \A t \in SendThreads :
        Exhausted(t)
            => tl[t].ret = IF GotSomewhere(tl[t].tried) THEN NegErrno(ETIMEDOUT)
                           ELSE NegErrno(ECONNREFUSED)

\* C18: when the loop ran out of attempts in UDP mode, res_nsend returns
\* -ETIMEDOUT if a try got somewhere and -ECONNREFUSED if none did; when it
\* ran out of attempts in TCP mode, it returns the errno that the last
\* failed try left, -ETIMEDOUT if no try left one, whether or not a try got
\* somewhere.
C18_ExhaustedErrnoByMode ==
    \A t \in SendThreads :
        Exhausted(t)
            => tl[t].ret = IF tl[t].useTcp THEN NegErrno(LastErrno(tl[t].tried))
                           ELSE IF GotSomewhere(tl[t].tried) THEN NegErrno(ETIMEDOUT)
                           ELSE NegErrno(ECONNREFUSED)

\* the loop ran out of attempts in TCP mode after a try over UDP had got
\* somewhere, and the errno of a failed connection is returned
C18_Witness ==
    \E t \in SendThreads :
        /\ Exhausted(t)
        /\ tl[t].useTcp
        /\ GotSomewhere(tl[t].tried)
        /\ tl[t].ret = NegErrno(AN_ERRNO)

(***************************************************************************)
(* Properties of the cache flags and of a second add, checked under        *)
(* SpecNoStore.                                                            *)
(***************************************************************************)
\* the pending requests of every cache
PendingRequests == [n \in DOMAIN cache_list |-> cache_list[n].cache.pending_requests]

\* C19: a res_nsend with ANDROID_RESOLV_NO_CACHE_STORE, with or without
\* ANDROID_RESOLV_NO_CACHE_LOOKUP: its lookup registers no pending request,
\* does not wait for one, and returns RESOLV_CACHE_SKIP unless it returns an
\* entry or rejects the query; and it never calls resolv_cache_add.
C19_NoStoreNeverAdds ==
    [][\A t \in Threads :
           ANDROID_RESOLV_NO_CACHE_STORE \in tl[t].flags
               => /\ NsendLookup(t)
                      => /\ pc'[t] # "n_wait"
                         /\ PendingRequests' = PendingRequests
                         /\ tl'[t].cache_status \in {RESOLV_CACHE_SKIP, RESOLV_CACHE_FOUND,
                                                     RESOLV_CACHE_UNSUPPORTED}
                  /\ ~NsendAdd(t)]_vars

(***************************************************************************)
(* A second add, checked under SpecCache.                                  *)
(***************************************************************************)
\* the cache of netid holds an entry that was stored for query
HasEntryFor(netid, query) ==
    /\ netid \in DOMAIN cache_list
    /\ \E e \in StoredEntries(cache_list[netid].cache) : e.query = query

\* C20: a resolv_cache_add for a query that has an entry in the cache returns
\* -EEXIST, leaves the entries of the cache (their answers and expiry times)
\* as they were, and leaves no pending request of the hash of the query.
C20_AddExistingIgnored ==
    [][\A t \in Threads, n \in NetIds, q \in CacheQueries, a \in CacheAnswers :
           (HasEntryFor(n, q) /\ CacheAdd(t, n, q, a))
               => /\ resolv_cache_add(cache_list, n, q, a, now).ret = "-EEXIST"
                  /\ last_call' = NoCall
                  /\ cache_list'[n].cache.entries = cache_list[n].cache.entries
                  /\ cache_list'[n].cache.mru_list = cache_list[n].cache.mru_list
                  /\ ~HasPending(cache_list'[n].cache, entry_init_key(q))]_vars

(***************************************************************************)
(* Properties of a full cache, checked under SpecEvict.                    *)
(***************************************************************************)
\* C21: a resolv_cache_add of a query that entry_init_key accepts, with an
\* answer whose TTL is 0, returns 0 and leaves the entries of the cache as
\* they were, full or not, with or without an entry for the query, and
\* leaves no pending request of the hash of the query.
C21_ZeroTtlAddChangesNoEntry ==
    [][\A t \in Threads, n \in NetIds, q \in EvictQueries, a \in EvictAnswers :
           (/\ n \in DOMAIN cache_list
            /\ CheckTable[q]
            /\ TTLTable[a] = 0
            /\ CacheAdd(t, n, q, a))
               => /\ resolv_cache_add(cache_list, n, q, a, now).ret = "0"
                  /\ StoredEntries(cache_list'[n].cache) = StoredEntries(cache_list[n].cache)
                  /\ ~HasPending(cache_list'[n].cache, entry_init_key(q))]_vars

(***************************************************************************)
(* SpecCheckQuery: entry_init_key applied to one packet.  The thread holds *)
(* the bytes of the packet in its query; KeyInit leaves the hash and the   *)
(* result of _dnsPacket_checkQuery in its locals, as resolv_cache_lookup   *)
(* (RESOLV_CACHE_UNSUPPORTED) and resolv_cache_add (-EINVAL) see them.     *)
(* The packets are every combination of the header bytes, the counts and   *)
(* the bodies below, and two packets shorter than a header.                *)
(***************************************************************************)
\* header byte 2: nothing, RD, TC, TC|RD, AA, an opcode bit, QR
PacketByte2 == {0, 1, 2, 3, 4, 8, 128}
\* header byte 3: nothing, CD, AD, AD|CD, Z, RA, an RCODE bit
PacketByte3 == {0, 16, 32, 48, 64, 128, 1}
\* <<QDCOUNT, ANCOUNT, NSCOUNT, ARCOUNT>>
PacketCounts ==
    { <<1, 0, 0, 0>>, <<1, 0, 0, 1>>, <<1, 0, 0, 2>>, <<1, 0, 0, 256>>,
      <<1, 1, 0, 0>>, <<1, 256, 0, 0>>, <<1, 0, 1, 0>>, <<1, 0, 256, 0>>,
      <<0, 0, 0, 0>>, <<2, 0, 0, 0>>, <<2, 0, 0, 1>>, <<256, 0, 0, 0>> }

PacketBodies ==
    { << >>,
      QuestionOf(NameA, DNS_TYPE_A, DNS_CLASS_IN),
      QuestionOf(NameA, DNS_TYPE_PTR, DNS_CLASS_IN),
      QuestionOf(NameA, DNS_TYPE_MX, DNS_CLASS_IN),
      QuestionOf(NameA, DNS_TYPE_AAAA, DNS_CLASS_IN),
      QuestionOf(NameA, DNS_TYPE_ALL, DNS_CLASS_IN),
      QuestionOf(NameA, <<0, 2>>, DNS_CLASS_IN),
      QuestionOf(NameA, <<1, 1>>, DNS_CLASS_IN),
      QuestionOf(NameA, DNS_TYPE_A, <<0, 3>>),
      QuestionOf(NameA, DNS_TYPE_A, <<1, 1>>),
      QuestionOf(<<0>>, DNS_TYPE_A, DNS_CLASS_IN),
      QuestionOf(Label(1) \o Label(2) \o <<0>>, DNS_TYPE_A, DNS_CLASS_IN),
      QuestionOf(<<2, 0, 200, 0>>, DNS_TYPE_A, DNS_CLASS_IN),
      QuestionOf(Label(63) \o <<0>>, DNS_TYPE_A, DNS_CLASS_IN),
      QuestionOf(Label(64) \o <<0>>, DNS_TYPE_A, DNS_CLASS_IN),
      QuestionOf(<<192, 12>>, DNS_TYPE_A, DNS_CLASS_IN),
      QuestionOf(Label(1) \o <<192, 12>>, DNS_TYPE_A, DNS_CLASS_IN),
      Label(1),
      <<9, 97, 0, 0, 1, 0, 1>>,
      NameA \o DNS_TYPE_A,
      NameA \o DNS_TYPE_A \o <<0>>,
      QuestionOf(NameA, DNS_TYPE_A, DNS_CLASS_IN) \o OptRR(16, 0, << >>),
      QuestionOf(NameA, DNS_TYPE_A, DNS_CLASS_IN)
          \o QuestionOf(NameA, DNS_TYPE_AAAA, DNS_CLASS_IN),
      QuestionOf(NameA, DNS_TYPE_A, DNS_CLASS_IN)
          \o QuestionOf(NameA, <<0, 2>>, DNS_CLASS_IN),
      QuestionOf(NameA, <<0, 2>>, DNS_CLASS_IN)
          \o QuestionOf(NameA, DNS_TYPE_A, DNS_CLASS_IN),
      QuestionOf(NameA, DNS_TYPE_A, DNS_CLASS_IN)
          \o QuestionOf(Label(64) \o <<0>>, DNS_TYPE_A, DNS_CLASS_IN) }

PacketHeader(id, b2, b3, counts) ==
    <<id \div 256, id % 256, b2, b3,
      counts[1] \div 256, counts[1] % 256, counts[2] \div 256, counts[2] % 256,
      counts[3] \div 256, counts[3] % 256, counts[4] \div 256, counts[4] % 256>>

Packets ==
    { PacketHeader(4660, b2, b3, c) \o b :
          b2 \in PacketByte2, b3 \in PacketByte3, c \in PacketCounts, b \in PacketBodies }
    \cup { << >>, SubSeq(PacketHeader(4660, 1, 0, <<1, 0, 0, 0>>), 1, DNS_HEADER_SIZE - 1) }

\* entry_init_key on the bytes of a packet
entry_init_key_bytes(query) ==
    [hash |-> _dnsPacket_hashQuery(query), ok |-> _dnsPacket_checkQuery(query)]

KeyInit(t) ==
    /\ pc[t] = "k_query"
    /\ \E key \in {entry_init_key_bytes(tl[t].query)} :
           tl' = [tl EXCEPT ![t].ret = IF key.ok THEN "0" ELSE "-EINVAL",
                            ![t].cache_status =
                                IF key.ok THEN "" ELSE RESOLV_CACHE_UNSUPPORTED]
    /\ pc' = [pc EXCEPT ![t] = "k_done"]
    /\ UNCHANGED <<now, cache_list, pdns, last_call>>

KeyThreads == {"t1"}

InitCheckQuery ==
    /\ now = 0
    /\ cache_list = << >>
    /\ pc = [t \in Threads |-> IF t \in KeyThreads THEN "k_query" ELSE "idle"]
    /\ \E query \in Packets :
           tl = [t \in Threads |->
                    IF t \in KeyThreads THEN [NoLocals EXCEPT !.query = query]
                    ELSE NoLocals]
    /\ pdns = PdnsInit
    /\ last_call = NoCall

NextCheckQuery == \E t \in KeyThreads : KeyInit(t)

SpecCheckQuery == InitCheckQuery /\ [][NextCheckQuery]_vars

(***************************************************************************)
(* Properties of the query check, checked under SpecCheckQuery.            *)
(***************************************************************************)
\* the 16-bit count at bytes i, i + 1 of the header (counted from 1)
CountAt(pkt, i) == pkt[i] * 256 + pkt[i + 1]

RECURSIVE QNameEnd(_, _)
\* The offset after the zero byte that ends the QNAME at offset o, or -1 when
\* a length byte is 64 or more (a compression pointer, or no label length), or
\* the packet ends before the zero byte.
QNameEnd(pkt, o) ==
    IF o >= Len(pkt) THEN -1
    ELSE IF pkt[o + 1] = 0 THEN o + 1
    ELSE IF pkt[o + 1] >= 64 THEN -1
    ELSE QNameEnd(pkt, o + 1 + pkt[o + 1])

RECURSIVE QuestionsWellFormed(_, _, _)
\* the n questions at offset o have each a QNAME as above, a TYPE of A, PTR,
\* MX, AAAA or ANY, and the CLASS IN
QuestionsWellFormed(pkt, o, n) ==
    IF n = 0 THEN TRUE
    ELSE LET e == QNameEnd(pkt, o) IN
         /\ e # -1
         /\ e + 4 <= Len(pkt)
         /\ pkt[e + 1] = 0
         /\ pkt[e + 2] \in {1, 12, 15, 28, 255}
         /\ pkt[e + 3] = 0
         /\ pkt[e + 4] = 1
         /\ QuestionsWellFormed(pkt, e + 4, n - 1)

\* what the check is said to accept
AcceptableQuery(pkt) ==
    /\ Len(pkt) >= 12
    /\ pkt[3] \div 128 = 0
    /\ (pkt[3] \div 8) % 16 = 0
    /\ (pkt[3] \div 4) % 2 = 0
    /\ pkt[4] \div 128 = 0
    /\ (pkt[4] \div 64) % 2 = 0
    /\ pkt[4] % 16 = 0
    /\ CountAt(pkt, 7) = 0
    /\ CountAt(pkt, 9) = 0
    /\ CountAt(pkt, 11) <= 1
    /\ CountAt(pkt, 5) >= 1
    /\ QuestionsWellFormed(pkt, 12, CountAt(pkt, 5))

\* the packet with its TC and RD bits set to tcrd (0..3) and its AD and CD
\* bits set to adcd (0..3)
WithBits(pkt, tcrd, adcd) ==
    IF Len(pkt) < 4 THEN pkt
    ELSE [pkt EXCEPT ![3] = (pkt[3] \div 4) * 4 + tcrd,
                     ![4] = (pkt[4] \div 64) * 64 + adcd * 16 + (pkt[4] % 16)]

FingerprintQueries == {1, 2, 3, 4, 7, 8, 9, 10, 11, 12, 13, 14, 15, 16, 17}
FingerprintAnswers == {2}

FingerprintThreads == {"t1"}

NextFingerprint ==
    \/ \E t \in FingerprintThreads, n \in NetIds, q \in FingerprintQueries :
           CacheLookup(t, n, q, PACKETSZ, {ANDROID_RESOLV_NO_CACHE_STORE})
    \/ \E t \in FingerprintThreads, n \in NetIds, q \in FingerprintQueries,
          a \in FingerprintAnswers :
           CacheAdd(t, n, q, a)

SpecFingerprint == InitCache /\ [][NextFingerprint]_vars

(***************************************************************************)
(* Properties of the fingerprint of a query, checked under                 *)
(* SpecFingerprint.                                                        *)
(***************************************************************************)
\* the packets of queries q1 and q2 differ at most in the transaction id
\* (bytes 1 and 2) and in the TC bit of byte 3
DiffersOnlyInIdAndTc(q1, q2) ==
    LET pack1 == QueryTable[q1]
        pack2 == QueryTable[q2]
    IN  /\ Len(pack1) = Len(pack2)
        /\ pack1[3] \div 4 = pack2[3] \div 4
        /\ pack1[3] % 2 = pack2[3] % 2
        /\ \A i \in 4..Len(pack1) : pack1[i] = pack2[i]

\* what a lookup of query on netid returns in this state
LookupNow(netid, query) ==
    resolv_cache_lookup(cache_list, netid, query, PACKETSZ,
                        {ANDROID_RESOLV_NO_CACHE_STORE}, now)

\* C23: for two validated queries that differ only in the transaction id and
\* the TC bit, the hashes are the same, each is equal to exactly the queries
\* the other is equal to, and while the cache holds an entry added under one
\* of them a lookup of the other returns FOUND.
C23_IdAndTcLeaveFingerprint ==
    \A q1, q2 \in FingerprintQueries :
        (CheckTable[q1] /\ CheckTable[q2] /\ DiffersOnlyInIdAndTc(q1, q2)) =>
            /\ entry_hash(q1) = entry_hash(q2)
            /\ \A q \in FingerprintQueries :
                   entry_equals(entry_init_key(q1), entry_init_key(q))
                       = entry_equals(entry_init_key(q2), entry_init_key(q))
            /\ \A n \in NetIds :
                   HasEntryFor(n, q1) => LookupNow(n, q2).status = RESOLV_CACHE_FOUND

\* the packets of queries q1 and q2 differ in the RD bit, in the AD or the CD
\* bit, or in a byte after the header (the questions and the additional
\* record)
DiffersInFingerprint(q1, q2) ==
    LET pack1 == QueryTable[q1]
        pack2 == QueryTable[q2]
    IN  \/ pack1[3] % 2 # pack2[3] % 2
        \/ (pack1[4] \div 16) % 4 # (pack2[4] \div 16) % 4
        \/ SubSeq(pack1, DNS_HEADER_SIZE + 1, Len(pack1))
               # SubSeq(pack2, DNS_HEADER_SIZE + 1, Len(pack2))

\* for each query, the validated queries that differ from it in that way
DiffersFrom ==
    Tabulate([q1 \in FingerprintQueries |->
                 {q2 \in FingerprintQueries :
                      CheckTable[q1] /\ CheckTable[q2] /\ DiffersInFingerprint(q1, q2)}])

\* C24: two validated queries that differ in the RD, AD or CD bit or in a byte
\* of a question or of the additional record are never equal, and the entry a
\* lookup of one of them finds in the cache is never an entry that was added
\* under the other.
C24_DifferentQueriesNeverMatch ==
    \A q1 \in FingerprintQueries :
        /\ \A q2 \in DiffersFrom[q1] :
               ~entry_equals(entry_init_key(q1), entry_init_key(q2))
        /\ \A n \in DOMAIN cache_list :
               \A lookup \in {_cache_lookup_p(cache_list[n].cache, entry_init_key(q1))} :
                   \/ IsNullLink(cache_list[n].cache, lookup)
                   \/ Deref(cache_list[n].cache, lookup).query \notin DiffersFrom[q1]

\* the cache holds the entries of the query with AD set and of the query with
\* CD set, in the bucket of the query with neither, and a lookup of that one
\* walks past them and finds nothing
C24_Witness ==
    /\ HasEntryFor(30, 9)
    /\ HasEntryFor(30, 10)
    /\ BucketIndex(entry_hash(1), MaxEntries) = BucketIndex(entry_hash(9), MaxEntries)
    /\ LookupNow(30, 1).status = RESOLV_CACHE_SKIP

(***************************************************************************)
(* SpecTtl: adds of answers of every shape of AnswerTable (answer records, *)
(* a negative answer whose SOA is first, last or after another record of   *)
(* the authority section, two SOAs, no SOA, a message that does not        *)
(* parse), with lookups, while the time passes.                            *)
(***************************************************************************)
TtlQueries == {1, 3}
TtlAnswers == AnswerIds
TtlThreads == {"t1"}

NextTtl ==
    \/ \E t \in TtlThreads, n \in NetIds, q \in TtlQueries :
           CacheLookup(t, n, q, PACKETSZ, {ANDROID_RESOLV_NO_CACHE_STORE})
    \/ \E t \in TtlThreads, n \in NetIds, q \in TtlQueries, a \in TtlAnswers :
           CacheAdd(t, n, q, a)
    \/ Tick

SpecTtl == InitCache /\ [][NextTtl]_vars

(***************************************************************************)
(* Properties of the TTL of an answer, checked under SpecTtl.              *)
(***************************************************************************)
\* the smallest number of a non-empty set of numbers
SetMin(S) == CHOOSE x \in S : \A y \in S : x <= y

\* The TTL an answer is said to have: the smallest TTL of its answer records;
\* without answer record the smallest min(TTL, MINIMUM) over the SOA records
\* of its authority section, 0 when there is none; 0 when it does not parse.
MinTtl(answer) ==
    LET soa == {i \in 1..Len(answer.ns) :
                    /\ answer.ns[i].parse_ok
                    /\ answer.ns[i].type = NS_T_SOA
                    /\ answer.ns[i].rdata_ok}
    IN  IF ~answer.initparse_ok THEN 0
        ELSE IF Len(answer.an) > 0
        THEN SetMin({answer.an[i].ttl : i \in 1..Len(answer.an)})
        ELSE IF soa = {} THEN 0
        ELSE SetMin({Min(answer.ns[i].ttl, answer.ns[i].minimum) : i \in soa})

\* C25: the entry that resolv_cache_add links for an answer expires
\* answer_min_ttl seconds after the add, and no entry is linked when that is
\* 0, where answer_min_ttl is the smallest TTL of the answer records and,
\* for an answer without answer record, the smallest min(TTL, MINIMUM) over
\* the SOA records of the authority section, wherever they are placed in it.
C25_AnswerMinTtl ==
    (last_call.op = "add" /\ last_call.ret = "0") =>
        /\ answer_getTTL(AnswerTable[last_call.answer]) = MinTtl(AnswerTable[last_call.answer])
        /\ \E ttl \in {MinTtl(AnswerTable[last_call.answer])} :
               IF ttl > 0
               THEN \E e \in StoredEntries(cache_list[last_call.netid].cache) :
                        /\ e.query = last_call.query
                        /\ e.answer = last_call.answer
                        /\ e.expires = now + ttl
               ELSE ~HasEntryFor(last_call.netid, last_call.query)

(***************************************************************************)
(* Properties of ANDROID_RESOLV_NO_RETRY, checked under SpecSend.          *)
(***************************************************************************)
\* the i-th server of the set usable_servers in list order, i counted from 1
NthUsable(usable_servers, i) ==
    CHOOSE ns \in usable_servers : Cardinality({m \in usable_servers : m < ns}) = i - 1

\* C26: when res_nsend runs with ANDROID_RESOLV_NO_RETRY and finds k > 1
\* usable servers, it keeps exactly one of them usable, the
\* ((hp->id mod k) + 1)-th in list order, and sets its retry count to 1; from
\* then on the call sends to at most one server, and to no other than that
\* one.
C26_NoRetryOneServer ==
    [][\A t \in SendThreads :
           /\ \A large \in BOOLEAN, tc \in BOOLEAN, id \in SendIds,
                 u \in SUBSET (0..(tl[t].nscount - 1)) :
                  (/\ ANDROID_RESOLV_NO_RETRY \in tl[t].flags
                   /\ Cardinality(u) > 1
                   /\ SendLoopEnter(t, large, tc, u, id))
                      => /\ tl'[t].usable = {NthUsable(u, (id % Cardinality(u)) + 1)}
                         /\ tl'[t].retryTimes = 1
           /\ (ANDROID_RESOLV_NO_RETRY \in tl'[t].flags /\ tl'[t].usableServersCount > 1)
                  => /\ Cardinality(tl'[t].contacted) <= 1
                     /\ tl'[t].contacted \subseteq tl'[t].usable]_vars

\* a call with ANDROID_RESOLV_NO_RETRY that found two usable servers, kept
\* the second, and has sent to it twice (over UDP, then over TCP)
C26_Witness ==
    \E t \in SendThreads :
        /\ ANDROID_RESOLV_NO_RETRY \in tl[t].flags
        /\ tl[t].usableServersCount = 2
        /\ tl[t].usable = {1}
        /\ tl[t].contacted = {1}
        /\ tl[t].upstream = 2

(***************************************************************************)
(* get_timeout (res_send.cpp): the timeout of one try of server ns.  Its   *)
(* arithmetic is that of a 32-bit int.                                     *)
(***************************************************************************)
\* INT_MAX and INT_MIN
IntMax == 1073741823 + 1073741824
IntMin == (-IntMax) - 1

RECURSIVE Pow2(_)
Pow2(n) == IF n = 0 THEN 1 ELSE 2 * Pow2(n - 1)

\* x << 1 on the 32 bits of a two's complement int
ShiftLeft1(x) ==
    LET low31 == IF x >= 0 THEN x ELSE x - IntMin
        low30 == low31 % Pow2(30)
    IN  IF low31 >= Pow2(30) THEN (2 * low30 - IntMax) - 1 ELSE 2 * low30

RECURSIVE ShiftLeft(_, _)
ShiftLeft(x, n) == IF n = 0 THEN x ELSE ShiftLeft(ShiftLeft1(x), n - 1)

\* What an undefined int expression may leave in msec, besides the wrapped bits
UndefinedInts == {IntMin, -1, 0, 999, 1000, IntMax}

\* params->base_timeout_msec << ns.  The shift of a negative int, and one whose
\* result an int cannot hold, are undefined.
ShiftOutcomes(x, n) ==
    IF x >= 0 /\ x <= IntMax \div Pow2(n) THEN {x * Pow2(n)}
    ELSE {ShiftLeft(x, n)} \cup UndefinedInts

\* a / b of ints, b > 0: the quotient is truncated toward zero
IntDiv(a, b) ==
    IF a >= 0 THEN a \div b
    ELSE LET q == (-(a + 1)) \div b
             r == (-(a + 1)) % b
         IN  IF r + 1 = b THEN (-q) - 1 ELSE -q

\* get_timeout with the division also applied to the first server
get_timeout_divide_first(shifted, nscount, ns) ==
    LET msec == IntDiv(shifted, nscount)
        floored == IF msec < 1000 THEN 1000 ELSE msec
    IN  [tv_sec |-> floored \div 1000, tv_nsec |-> (floored % 1000) * 1000000]

\* get_timeout after msec = params->base_timeout_msec << ns (shifted)
get_timeout(shifted, nscount, ns) ==
    LET msec == IF ns > 0 THEN IntDiv(shifted, nscount) ELSE shifted
        floored == IF msec < 1000 THEN 1000 ELSE msec
    IN  [tv_sec |-> floored \div 1000, tv_nsec |-> (floored % 1000) * 1000000]

GetTimeout(t) ==
    /\ pc[t] = "g_call"
    /\ \E shifted \in ShiftOutcomes(tl[t].base_timeout_msec, tl[t].ns) :
           tl' = [tl EXCEPT ![t].timeout = get_timeout(shifted, tl[t].nscount, tl[t].ns)]
    /\ pc' = [pc EXCEPT ![t] = "g_done"]
    /\ UNCHANGED <<now, cache_list, pdns, last_call>>

TimeoutThreads == {"t1"}

\* params->base_timeout_msec is an int the caller (or the flag) sets
TimeoutBases ==
    {-5000, 0, 1, 100, 999, 1000, 1500, 3000, 5000, 30000,
     Pow2(28), Pow2(28) + 5000, Pow2(30), IntMax}

\* statp->nscount, the number of servers
TimeoutNsCounts == 1..4

InitTimeout ==
    /\ now = 0
    /\ cache_list = << >>
    /\ pc = [t \in Threads |-> IF t \in TimeoutThreads THEN "g_call" ELSE "idle"]
    /\ \E base \in TimeoutBases, nscount \in TimeoutNsCounts :
       \E ns \in 0..(nscount - 1) :
           tl = [t \in Threads |->
                    IF t \in TimeoutThreads
                    THEN [NoLocals EXCEPT !.base_timeout_msec = base,
                                          !.nscount = nscount, !.ns = ns]
                    ELSE NoLocals]
    /\ pdns = PdnsInit
    /\ last_call = NoCall

NextTimeout == \E t \in TimeoutThreads : GetTimeout(t)

SpecTimeout == InitTimeout /\ [][NextTimeout]_vars

(***************************************************************************)
(* Properties of get_timeout, checked under SpecTimeout.                   *)
(***************************************************************************)
\* the milliseconds of a timespec
MillisOf(ts) == ts.tv_sec * 1000 + ts.tv_nsec \div 1000000

\* max(1000, (base << ns) / (ns == 0 ? 1 : N)) where base << ns is defined
ClaimedTimeout(base, N, ns) ==
    LET scaled == (base * Pow2(ns)) \div (IF ns = 0 THEN 1 ELSE N)
    IN  IF scaled > 1000 THEN scaled ELSE 1000

\* C27: the timeout get_timeout returns for server ns of N is never below
\* 1000 ms, it is max(1000, (base_timeout_msec << ns) / (ns == 0 ? 1 : N)) ms
\* whenever the shift is a defined int, and for 5000 ms and 4 servers it is
\* 5000, 2500, 5000, 10000 ms for ns = 0..3.
C27_TimeoutOfServer ==
    \A t \in TimeoutThreads :
        pc[t] = "g_done" =>
            LET l == tl[t] IN
            /\ MillisOf(l.timeout) >= 1000
            /\ l.timeout.tv_nsec \in 0..999999999
            /\ (l.base_timeout_msec >= 0
                /\ l.base_timeout_msec <= IntMax \div Pow2(l.ns))
                   => MillisOf(l.timeout)
                          = ClaimedTimeout(l.base_timeout_msec, l.nscount, l.ns)
            /\ (l.base_timeout_msec = 5000 /\ l.nscount = 4)
                   => MillisOf(l.timeout) = <<5000, 2500, 5000, 10000>>[l.ns + 1]

C27_Witness ==
    /\ pc["t1"] = "g_done"
    /\ tl["t1"].base_timeout_msec = 5000
    /\ tl["t1"].nscount = 4
    /\ tl["t1"].ns = 1
    /\ tl["t1"].timeout = [tv_sec |-> 2, tv_nsec |-> 500000000]

(***************************************************************************)
(* Properties of the samples of res_nsend, checked under SpecSend.         *)
(***************************************************************************)
\* the samples in the rings of the servers of a network
SampleCounts(cl) ==
    [n \in DOMAIN cl |-> [i \in DOMAIN cl[n].nsstats |-> cl[n].nsstats[i].sample_count]]

\* thread t makes a try (a call of send_dg or send_vc) in this step
IsTry(t) ==
    /\ pc[t] = "s_loop"
    /\ tl[t].ns \in tl[t].usable
    /\ tl'[t].upstream = tl[t].upstream + 1

\* the tries of server ns in a call, as indices of tried
TriesOf(l, ns) == {i \in DOMAIN l.tried : l.tried_ns[i] = ns}

\* a try that found no answer and let the loop go on (send_dg or send_vc
\* returned 0)
FailedTries ==
    {o \in DgOutcomes : send_dg(o, ETIMEDOUT, FALSE, FALSE).resplen = 0}
        \cup {o \in VcOutcomes : send_vc(o, ETIMEDOUT).resplen = 0}

SamplesOf(l, ns) == Cardinality({i \in DOMAIN l.sampled : l.sampled[i] = ns})

HoldsEntry(t) ==
    /\ find_named_cache_locked(cache_list, tl[t].netid)
    /\ \E e \in StoredEntries(cache_list[tl[t].netid].cache) :
           entry_equals(e, entry_init_key(tl[t].query))

\* the wait of t ends in this step
WaitReturns(t) == pc[t] = "wait" /\ pc'[t] = "idle"

\* C29: a lookup that waits on a pending request returns in the end, also
\* when the pending record is never removed (the wait times out); when it
\* returns with the record still linked, wait_for_pending_req_timeout_count of
\* the network is incremented, and without an entry for its query the lookup
\* does not return RESOLV_CACHE_FOUND.
C29_BlockedLookupTimesOut ==
    /\ \A t \in Threads : (pc[t] = "wait") ~> (pc[t] = "idle")
    /\ [][\A t \in Threads :
              (WaitReturns(t) /\ ~WaitPredicate(cache_list, tl[t].netid, tl[t].query)) =>
                  LET netid == tl[t].netid IN
                  /\ cache_list'[netid].wait_for_pending_req_timeout_count
                         = Min(cache_list[netid].wait_for_pending_req_timeout_count + 1,
                               MaxTimeoutCount)
                  /\ cache_list'[netid].cache.pending_requests
                         = cache_list[netid].cache.pending_requests
                  /\ ~HoldsEntry(t) => last_call' = NoCall]_vars

\* a wait timed out, and the record that it waited on is still linked: no
\* thread waits, no entry was added
C29_Witness ==
    /\ \A t \in Threads : pc[t] = "idle"
    /\ find_named_cache_locked(cache_list, 30)
    /\ cache_list[30].wait_for_pending_req_timeout_count = 1
    /\ HasPending(cache_list[30].cache, entry_init_key(1))
    /\ cache_list[30].cache.mru_list = << >>

(***************************************************************************)
(* Properties of a lookup that meets an expired entry, checked under       *)
(* SpecNoStore.                                                            *)
(***************************************************************************)
\* the lookup of t will find an entry for its query that has expired
FindsExpiredEntry(t) ==
    /\ pc[t] = "n_lookup"
    /\ ANDROID_RESOLV_NO_CACHE_LOOKUP \notin tl[t].flags
    /\ find_named_cache_locked(cache_list, tl[t].netid)
    /\ LET cache == cache_list[tl[t].netid].cache
           lookup == _cache_lookup_p(cache, entry_init_key(tl[t].query))
       IN  /\ ~IsNullLink(cache, lookup)
           /\ now >= Deref(cache, lookup).expires

\* the cache list without the entry that the lookup of t finds
WithoutEntryOf(t) ==
    [cache_list EXCEPT ![tl[t].netid].cache =
        _cache_remove_p(@, _cache_lookup_p(@, entry_init_key(tl[t].query)))]

\* C30: a lookup that finds a matching entry that has expired does not return
\* RESOLV_CACHE_FOUND; it removes the entry and then does what a lookup of the
\* same query does on the cache without the entry: with
\* ANDROID_RESOLV_NO_CACHE_STORE it returns RESOLV_CACHE_SKIP, otherwise it
\* links a pending record and returns RESOLV_CACHE_NOTFOUND, or waits on the
\* record that is linked.
C30_ExpiredEntryIsAMiss ==
    [][\A t \in Threads :
           (FindsExpiredEntry(t) /\ NsendLookup(t)) =>
               LET l == tl[t]
                   miss == resolv_cache_lookup(WithoutEntryOf(t), l.netid, l.query,
                                               l.answersize, l.flags, now)
               IN  /\ tl'[t].cache_status # RESOLV_CACHE_FOUND
                   /\ cache_list' = miss.cl
                   /\ IF miss.status = LOOKUP_WAIT THEN pc'[t] = "n_wait"
                      ELSE /\ pc'[t] # "n_wait"
                           /\ tl'[t].cache_status = miss.status]_vars

(***************************************************************************)
(* Properties of the eviction, checked under SpecCache, whose queries      *)
(* include one with ARCOUNT = 1 and no record.                             *)
(***************************************************************************)
\* the add of query q into the cache of n has to make room: the query is
\* accepted, no entry of its chain is equal to it, and the cache is full
AddMeetsFullCache(n, q) ==
    /\ find_named_cache_locked(cache_list, n)
    /\ CheckTable[q]
    /\ LET cache == cache_list[n].cache IN
       /\ IsNullLink(cache, _cache_lookup_p(cache, entry_init_key(q)))
       /\ cache.num_entries >= cache.max_entries

\* the entries of an MRU list that have not expired, in its order
Unexpired(mru_list) ==
    LET Live(e) == now < e.expires IN SelectSeq(mru_list, Live)

\* what the eviction is to leave of an MRU list of a cache of max_entries
\* entries: without the expired entries and, if that still fills the cache,
\* without the last of the others
AfterEviction(mru_list, max_entries) ==
    LET live == Unexpired(mru_list)
    IN  IF Len(live) >= max_entries THEN SubSeq(live, 1, Len(live) - 1) ELSE live

\* C31: an add that inserts into a full cache first removes every expired
\* entry and, only if the cache is still full, exactly one more entry, the
\* tail of the MRU list; the entry that a lookup returns as
\* RESOLV_CACHE_FOUND, like the entry inserted, is at the head of that list.
C31_EvictsExpiredThenOldest ==
    /\ [][\A n \in NetIds :
              LET q == last_call'.query
                  a == last_call'.answer
              IN  (/\ last_call'.op = "add"
                   /\ AddMeetsFullCache(n, q)
                   /\ TTLTable[a] > 0
                   /\ \E t \in Threads : CacheAdd(t, n, q, a))
                      => LET cache == cache_list[n].cache
                             after == cache_list'[n].cache
                         IN  /\ Len(after.mru_list) >= 1
                             /\ after.mru_list[1].query = q
                             /\ Tail(after.mru_list)
                                    = AfterEviction(cache.mru_list, cache.max_entries)
                             /\ after.num_entries = Len(after.mru_list)]_vars
    /\ [](last_call.op = "lookup" =>
              cache_list[last_call.netid].cache.mru_list[1].query = last_call.query)

(***************************************************************************)
(* The links of the entries, checked under SpecCacheFlush.                 *)
(***************************************************************************)
\* how often the sequence s holds x
Occurrences(s, x) == Cardinality({i \in 1..Len(s) : s[i] = x})

\* how often the chain of bucket b holds x
InChain(cache, b, x) == Occurrences(cache.entries[b], x)

\* Entries are values here: two entries of one query, answer and expiry are
\* told apart only by their number.  `Exactly one chain, exactly once in the
\* MRU list' reads: an entry is in no chain but that of its hash, and as
\* often in that chain as in the MRU list.
EntriesLinkedOnce(cache) ==
    /\ \A b \in DOMAIN cache.entries :
           \A i \in 1..Len(cache.entries[b]) :
               LET e == cache.entries[b][i] IN
               /\ b = BucketIndex(e.hash, cache.max_entries)
               /\ Occurrences(cache.mru_list, e) = InChain(cache, b, e)
    /\ \A i \in 1..Len(cache.mru_list) :
           LET e == cache.mru_list[i]
               b == BucketIndex(e.hash, cache.max_entries)
           IN  Occurrences(cache.mru_list, e) = InChain(cache, b, e)

\* C32: in every reachable state every entry of a cache is in the collision
\* chain of exactly one bucket, that of its hash mod max_entries, and exactly
\* once in the MRU list, and num_entries is the number of entries of the MRU
\* list.
C32_EntriesLinkedOnce ==
    \A cache \in Caches :
        /\ EntriesLinkedOnce(cache)
        /\ cache.num_entries = Len(cache.mru_list)
        /\ DOMAIN cache.entries = 0..(cache.max_entries - 1)

\* after an add at a later time: entries in both buckets, two of them in
\* one chain, one of them not yet expired
C32_Witness ==
    \E cache \in Caches :
        /\ \A b \in DOMAIN cache.entries : cache.entries[b] # << >>
        /\ \E b \in DOMAIN cache.entries : Len(cache.entries[b]) >= 2
        /\ \E i \in 1..Len(cache.mru_list) : cache.mru_list[i].expires > now
        /\ now >= 1
        /\ last_call.op = "add"

(***************************************************************************)
(* SpecPending: one thread sends its query through res_nsend, over TLS or  *)
(* over cleartext, while private DNS is set to either mode and the        *)
(* cache of the network is deleted and created again (a new cache has no   *)
(* nameserver).  Every step of res_nsend returns: the sleeps, the          *)
(* dispatcher and the retry loop are bounded by their timeouts, so the     *)
(* steps of a call are weakly fair.                                        *)
(***************************************************************************)
PendingThreads == {"t1"}
PendingResponses == {RESPONSE_SUCCESS, RESPONSE_NETWORK_ERROR, RESPONSE_LIMIT_ERROR}

\* the steps of res_nsend after the call
NsendRun(t) ==
    \/ NsendLookup(t)
    \/ NsendPopulate(t)
    \/ TlsGetStatus(t)
    \/ TlsPoll(t)
    \/ TlsReread(t)
    \/ \E r \in PendingResponses : TlsDispatch(t, r, 1)
    \/ NsendGetStats(t)
    \/ \E o \in SendOutcomes : NsendSend(t, o, 1)
    \/ NsendAdd(t)
    \/ NsendQueryFailed(t)

NextPending ==
    \/ \E t \in PendingThreads, n \in NetIds, u \in BOOLEAN : NsendCall(t, n, 1, {}, u)
    \/ \E t \in PendingThreads : NsendRun(t)
    \/ \E t \in PendingThreads : NsendDone(t)
    \/ \E n \in NetIds, name \in TlsNames : PdnsSet(n, TlsAddrs, name)
    \/ \E v \in DOMAIN pdns.validators, ok \in BOOLEAN : Validate(v, ok)
    \/ \E n \in NetIds : CreateCache(n)
    \/ \E n \in NetIds : DeleteCache(n)

SpecPending ==
    /\ InitNsend
    /\ [][NextPending]_vars
    /\ \A t \in PendingThreads : WF_vars(NsendRun(t))

\* the query of t has a pending request in the cache of its network
QueryIsPending(cl, t) ==
    /\ find_named_cache_locked(cl, tl[t].netid)
    /\ \E i \in 1..Len(cl[tl[t].netid].cache.pending_requests) :
           cl[tl[t].netid].cache.pending_requests[i] = entry_hash(tl[t].query)

\* res_nsend of t runs, its lookup done
InNsend(t) == pc[t] \notin {"idle", "n_lookup", "n_wait", "done"}

\* C33: the pending request that the lookup of a res_nsend links is unlinked
\* by that res_nsend: after a lookup that returned NOTFOUND the call returns
\* only after resolv_cache_add or _resolv_cache_query_failed, which leave no
\* request of the query, or with -ESRCH when the network is gone; no request
\* is left when the call has returned; and a linked request is eventually
\* unlinked.
C33_PendingRemovedByNsend ==
    /\ [][\A t \in PendingThreads :
              (InNsend(t) /\ tl[t].cache_status = RESOLV_CACHE_NOTFOUND
                  /\ pc'[t] = "done")
                  => \/ /\ NsendAdd(t) \/ NsendQueryFailed(t)
                        /\ ~QueryIsPending(cache_list', t)
                     \/ /\ pc[t] = "n_stats"
                        /\ ~find_named_cache_locked(cache_list, tl[t].netid)
                        /\ tl'[t].ret = RET_ESRCH]_vars
    /\ []((\A t \in PendingThreads : pc[t] \in {"idle", "done"})
              => \A n \in DOMAIN cache_list : cache_list[n].cache.pending_requests = << >>)
    /\ \A t \in PendingThreads :
           (InNsend(t) /\ QueryIsPending(cache_list, t)) ~> ~QueryIsPending(cache_list, t)

C33_Witness ==
    \E t \in PendingThreads :
        /\ pc[t] = "done"
        /\ tl[t].cache_status = RESOLV_CACHE_NOTFOUND
        /\ tl[t].ret = RET_ETIMEDOUT
        /\ tl[t].polled
        /\ find_named_cache_locked(cache_list, tl[t].netid)
        /\ ~QueryIsPending(cache_list, t)

(***************************************************************************)
(* The tries of the retry loop, checked under SpecSend: tl[t].tried,       *)
(* tried_ns and tried_attempt are the outcome, the server index and the    *)
(* attempt index of the tries of the running call, in their order.         *)
(***************************************************************************)
\* the tries of the call over TCP
VcTries(l) == {i \in 1..Len(l.tried) : l.tried[i] \in VcOutcomes}

\* C34: after a truncated UDP answer the next try of the call is a TCP try
\* of the same server index in the same attempt (while it has not been made,
\* the loop stands before it); and no server index is tried over TCP twice
\* in a call, whatever retryTimes is.
C34_TruncationRetriesOverTcp ==
    \A t \in SendThreads :
        LET l == tl[t] IN
        /\ \A i \in 1..Len(l.tried) :
               l.tried[i] = DG_TRUNCATED
                   => IF i < Len(l.tried)
                      THEN /\ l.tried[i + 1] \in VcOutcomes
                           /\ l.tried_ns[i + 1] = l.tried_ns[i]
                           /\ l.tried_attempt[i + 1] = l.tried_attempt[i]
                      ELSE /\ pc[t] = "s_loop"
                           /\ l.useTcp
                           /\ l.ns = l.tried_ns[i]
                           /\ l.ns \in l.usable
                           /\ l.attempt = l.tried_attempt[i]
        /\ \A i, j \in VcTries(l) : l.tried_ns[i] = l.tried_ns[j] => i = j

C34_Witness ==
    \E t \in SendThreads :
        LET l == tl[t] IN
        /\ l.exhausted
        /\ l.retryTimes = 2
        /\ \E i \in 1..Len(l.tried) :
               /\ i > 1
               /\ l.tried[i] = DG_TRUNCATED
               /\ l.tried_ns[i] = 1
               /\ l.tried_attempt[i] = 0
               /\ i < Len(l.tried)
               /\ l.tried[i + 1] = VC_FAILED

(***************************************************************************)
(* SpecDg: send_dg after its send, one step per iteration of its receive   *)
(* loop (from the label retry to goto retry or to a return).  A datagram   *)
(* is [from, undersized, hdr, questions]: the sender's sockaddr, a length  *)
(* below HFIXEDSZ or not, the header and the questions that follow it.     *)
(* The answer buffer is a header and one place for a question; recvfrom    *)
(* overwrites what the datagram covers and leaves the rest as it was.      *)
(* What the buffer holds before the first datagram is not set by send_dg:  *)
(* it is an input.  retrying_poll blocks until a datagram arrives or       *)
(* finish has passed; between two iterations the time may pass (Tick).     *)
(***************************************************************************)
HFIXEDSZ == DNS_HEADER_SIZE

AF_INET == "AF_INET"
AF_INET6 == "AF_INET6"
INADDR_ANY == "0.0.0.0"

NOERROR == "NOERROR"
FORMERR == "FORMERR"
SERVFAIL == "SERVFAIL"

\* a question whose name dn_expand rejects
MALFORMED == [name |-> "malformed", type |-> "", class |-> ""]

ns_o_query == "QUERY"
ns_o_update == "UPDATE"

DgQuestion(name) == [name |-> name, type |-> "A", class |-> "IN"]

\* res_nameinquery: 1 found, 0 not found, -1 format error; questions is what
\* follows the header up to eom
RECURSIVE NameInQueryLoop(_, _, _, _)
NameInQueryLoop(question, questions, i, qdcount) ==
    IF qdcount <= 0 THEN 0
    ELSE IF i > Len(questions) \/ questions[i] = MALFORMED THEN -1
    ELSE IF questions[i] = question THEN 1
    ELSE NameInQueryLoop(question, questions, i + 1, qdcount - 1)

res_nameinquery(question, buf) == NameInQueryLoop(question, buf.questions, 1, buf.hdr.qdcount)

RECURSIVE QueriesMatchLoop(_, _, _, _)
QueriesMatchLoop(buf1, buf2, i, qdcount) ==
    IF qdcount <= 0 THEN 1
    ELSE IF i > Len(buf1.questions) \/ buf1.questions[i] = MALFORMED THEN -1
    ELSE IF res_nameinquery(buf1.questions[i], buf2) = 0 THEN 0
    ELSE QueriesMatchLoop(buf1, buf2, i + 1, qdcount - 1)

\* res_queriesmatch(buf1, eom1, buf2, eom2): 1 a 1:1 mapping, 0 none, -1
\* format error
res_queriesmatch(buf1, buf2) ==
    IF buf1.hdr.opcode = ns_o_update /\ buf2.hdr.opcode = ns_o_update THEN 1
    ELSE IF buf1.hdr.qdcount # buf2.hdr.qdcount THEN 0
    ELSE QueriesMatchLoop(buf1, buf2, 1, buf1.hdr.qdcount)

\* res_ourserver_p: sa is the address of one of the servers of nsaddrs
res_ourserver_p(nsaddrs, sa) ==
    /\ sa.family \in {AF_INET, AF_INET6}
    /\ \E ns \in 1..Len(nsaddrs) :
           /\ nsaddrs[ns].family = sa.family
           /\ nsaddrs[ns].port = sa.port
           /\ nsaddrs[ns].addr = INADDR_ANY \/ nsaddrs[ns].addr = sa.addr

\* the answer buffer after recvfrom stored the datagram d
recvfrom(ans, d) ==
    IF d.undersized THEN ans
    ELSE [hdr |-> d.hdr,
          questions |-> [i \in 1..Len(ans.questions) |->
                            IF i <= Len(d.questions) THEN d.questions[i]
                            ELSE ans.questions[i]]]

NoDg ==
    [buf |-> << >>, nsaddrs |-> << >>, use_edns |-> FALSE, start |-> 0, timeout |-> 0,
     finish |-> 0, ans |-> << >>, blocked |-> 0, last |-> << >>, resplen |-> 0,
     v_circuit |-> FALSE, discarded |-> 0]

\* send_dg returns resplen
DgReturn(l, g, resplen) == Goto("dg_done", [l EXCEPT !.dg = [g EXCEPT !.resplen = resplen]])

\* send_dg from recvfrom's return with the datagram d to goto retry or to
\* its return
AfterRecvfrom(l, g0, d) ==
    LET g == [g0 EXCEPT !.ans = recvfrom(@, d), !.last = d]
        anhp == g.ans.hdr
        Retry == Goto("dg_poll", [l EXCEPT !.dg = [g EXCEPT !.discarded = @ + 1]])
    IN  IF d.undersized THEN DgReturn(l, g, 0)
        ELSE IF g.buf.hdr.id # anhp.id THEN Retry
        ELSE IF ~res_ourserver_p(g.nsaddrs, d.from) THEN Retry
        ELSE IF anhp.rcode = FORMERR /\ g.use_edns THEN DgReturn(l, g, 0)
        ELSE IF res_queriesmatch(g.buf, g.ans) = 0 THEN Retry
        ELSE IF anhp.rcode = SERVFAIL THEN DgReturn(l, g, 0)
        ELSE IF anhp.tc THEN DgReturn(l, [g EXCEPT !.v_circuit = TRUE], 1)
        ELSE DgReturn(l, g, 1)

DgAddrs ==
    << [family |-> AF_INET, port |-> "53", addr |-> "a"],
       [family |-> AF_INET6, port |-> "53", addr |-> "b"] >>

DgSenders ==
    { DgAddrs[1], DgAddrs[2],
      [family |-> AF_INET, port |-> "5353", addr |-> "a"],
      [family |-> AF_INET, port |-> "53", addr |-> "x"] }

DgIds == {1, 2}
DgHeaders ==
    [id : DgIds, opcode : {ns_o_query}, rcode : {NOERROR, FORMERR, SERVFAIL},
     tc : BOOLEAN, qdcount : {1}]
DgQuestions == {DgQuestion("a"), DgQuestion("b"), MALFORMED}
Datagrams ==
    [from : DgSenders, undersized : {FALSE}, hdr : DgHeaders,
     questions : {<< >>} \cup {<<q>> : q \in DgQuestions}]
        \cup [from : {DgAddrs[1]}, undersized : {TRUE}, hdr : {<< >>}, questions : {<< >>}]

\* the timeouts of get_timeout, in seconds
DgTimeouts == {1, 2}

\* send_dg up to the label retry: the query is sent to the server and the
\* deadline is fixed
DgStart(t, id, use_edns, timeout, stale) ==
    /\ pc[t] = "idle"
    /\ now + timeout <= MaxTime
    /\ Step(t, Goto("dg_poll",
                    [NoLocals EXCEPT !.dg =
                        [NoDg EXCEPT !.buf = [hdr |-> [id |-> id, opcode |-> ns_o_query,
                                                       rcode |-> NOERROR, tc |-> FALSE,
                                                       qdcount |-> 1],
                                              questions |-> <<DgQuestion("a")>>],
                                     !.nsaddrs = DgAddrs, !.use_edns = use_edns,
                                     !.start = now, !.timeout = timeout,
                                     !.finish = now + timeout, !.ans = stale]]))
    /\ UNCHANGED <<now, cache_list, pdns, last_call>>

\* retrying_poll returns 0: nothing arrived before finish
DgTimeout(t) ==
    /\ pc[t] = "dg_poll"
    /\ \E g \in {tl[t].dg} :
       \E end \in {IF g.finish > now THEN g.finish ELSE now} :
           /\ now' = end
           /\ Step(t, DgReturn([tl[t] EXCEPT !.gotsomewhere = TRUE],
                               [g EXCEPT !.blocked = @ + (end - now)], 0))
    /\ UNCHANGED <<cache_list, pdns, last_call>>

\* retrying_poll returns at the time at, when the datagram d is there (at
\* once when finish has passed), and recvfrom reads it
DgReceive(t, d, at) ==
    /\ pc[t] = "dg_poll"
    /\ at >= now
    /\ at <= (IF tl[t].dg.finish > now THEN tl[t].dg.finish ELSE now)
    /\ tl[t].dg.discarded < MaxDiscarded
    /\ now' = at
    /\ Step(t, AfterRecvfrom([tl[t] EXCEPT !.gotsomewhere = TRUE],
                             [tl[t].dg EXCEPT !.blocked = @ + (at - now)], d))
    /\ UNCHANGED <<cache_list, pdns, last_call>>

\* retrying_poll or recvfrom fails at the time at
DgError(t, at) ==
    /\ pc[t] = "dg_poll"
    /\ at >= now
    /\ at <= (IF tl[t].dg.finish > now THEN tl[t].dg.finish ELSE now)
    /\ now' = at
    /\ Step(t, DgReturn(tl[t], [tl[t].dg EXCEPT !.blocked = @ + (at - now)], 0))
    /\ UNCHANGED <<cache_list, pdns, last_call>>

\* send_dg has returned
DgDone(t) ==
    /\ pc[t] = "dg_done"
    /\ Step(t, Goto("idle", NoLocals))
    /\ UNCHANGED <<now, cache_list, pdns, last_call>>

DgThreads == {"t1"}
\* the answer buffer before the first datagram
DgStale == [hdr : {[id |-> 2, opcode |-> ns_o_query, rcode |-> NOERROR, tc |-> FALSE,
                    qdcount |-> 1]},
            questions : {<<q>> : q \in DgQuestions}]

NextDg ==
    \/ \E t \in DgThreads, id \in {1}, e \in BOOLEAN, timeout \in DgTimeouts,
          stale \in DgStale : DgStart(t, id, e, timeout, stale)
    \/ \E t \in DgThreads : DgTimeout(t)
    \/ \E t \in DgThreads, d \in Datagrams, at \in 0..MaxTime : DgReceive(t, d, at)
    \/ \E t \in DgThreads, at \in 0..MaxTime : DgError(t, at)
    \/ \E t \in DgThreads : DgDone(t)
    \/ Tick

SpecDg == InitCache /\ [][NextDg]_vars

\* the datagram is of the query's id, from one of the servers, and its
\* question section is the query's
PassesChecks(g, d) ==
    /\ d.hdr.id = g.buf.hdr.id
    /\ \E ns \in 1..Len(g.nsaddrs) : g.nsaddrs[ns] = d.from
    /\ d.hdr.qdcount = g.buf.hdr.qdcount
    /\ d.questions = g.buf.questions

\* C35: send_dg returns a positive length only for a datagram of the
\* query's id, sent by one of the configured servers, whose question section
\* is the query's; after a datagram that fails one of the three it returns
\* nothing positive, and when it polls again finish is unchanged; finish is
\* the deadline fixed before the first poll, and the polls of a call block
\* for no longer than its timeout altogether.
C35_OnlyCheckedDatagramsAnswer ==
    /\ [][\A t \in DgThreads :
              (pc[t] = "dg_poll" /\ pc'[t] # "dg_poll" /\ tl'[t].dg.resplen > 0)
                  => PassesChecks(tl'[t].dg, tl'[t].dg.last)]_vars
    /\ [][\A t \in DgThreads :
              (pc[t] = "dg_poll" /\ pc'[t] = "dg_poll" /\ tl'[t] # tl[t])
                  => /\ tl'[t].dg.finish = tl[t].dg.finish
                     /\ tl'[t].dg.discarded = tl[t].dg.discarded + 1]_vars
    /\ [](\A t \in DgThreads :
              pc[t] \in {"dg_poll", "dg_done"}
                  => /\ tl[t].dg.finish = tl[t].dg.start + tl[t].dg.timeout
                     /\ tl[t].dg.blocked <= tl[t].dg.timeout)

(***************************************************************************)
(* SpecValidate: the private DNS configuration of a network is set and     *)
(* cleared while its validate_thread's run.  backoff.hasNextTimeout() is   *)
(* the answer of a library: a validate_thread that has to validate again   *)
(* sleeps and goes on (Validate), or finds no next timeout and exits       *)
(* (ValidateLast).                                                         *)
(***************************************************************************)
\* a validate_thread records its result and leaves its loop: nothing is to
\* be validated again, or backoff.hasNextTimeout() is false
ValidateLast(v, success) ==
    /\ v \in DOMAIN pdns.validators
    /\ \E r \in {recordPrivateDnsValidation(pdns, v.server, v.netId, success)} :
       pdns' = [r.pd EXCEPT !.validators = BagRemove(@, v)]
    /\ UNCHANGED <<now, cache_list, pc, tl, last_call>>

ValidateAddrs == {"a1", "a2"}

NextValidate ==
    \/ \E n \in NetIds, sv \in SUBSET ValidateAddrs, name \in TlsNames : PdnsSet(n, sv, name)
    \/ \E n \in NetIds : PdnsClear(n)
    \/ \E v \in DOMAIN pdns.validators, ok \in BOOLEAN : Validate(v, ok)
    \/ \E v \in DOMAIN pdns.validators, ok \in BOOLEAN : ValidateLast(v, ok)

SpecValidate == InitNsend /\ [][NextValidate]_vars

\* the validate_thread's that run for the address addr on the network netId
RunningFor(pd, netId, addr) ==
    {v \in DOMAIN pd.validators : v.netId = netId /\ v.server.addr = addr}

RECURSIVE BagCount(_, _)
\* the number of threads of the validators of the set vs
BagCount(b, vs) ==
    IF vs = {} THEN 0
    ELSE LET v == CHOOSE x \in vs : TRUE IN b[v] + BagCount(b, vs \ {v})

\* C36: a server whose Validation is in_process has a validate_thread that
\* still runs for it.
C36_InProcessHasValidator ==
    \A n \in DOMAIN pdns.transports :
        \A a \in DOMAIN pdns.transports[n] :
            pdns.transports[n][a].validation = VALIDATION_IN_PROCESS
                => RunningFor(pdns, n, a) # {}

\* C37: at most one validate_thread runs for a server of a network, and a
\* validate_thread that returns does not take the success of its server away.
C37_OneValidatorPerServer ==
    /\ [](\A n \in NetIds, a \in ValidateAddrs :
              BagCount(pdns.validators, RunningFor(pdns, n, a)) <= 1)
    /\ [][\A v \in DOMAIN pdns.validators :
              (/\ ValidationOf(pdns, v) = VALIDATION_SUCCESS
               /\ \E ok \in BOOLEAN : Validate(v, ok) \/ ValidateLast(v, ok))
                  => ValidationOf(pdns', v) = VALIDATION_SUCCESS]_vars

(***************************************************************************)
(* Properties of the comparison of queries, checked under SpecCache.       *)
(***************************************************************************)
\* C38: every query that the cache stored (entry_init_key accepted it) is
\* equal to itself, and no cache holds two entries of the same query.
C38_EqualityReflexive ==
    \A cache \in Caches :
        \A i, j \in 1..Len(cache.mru_list) :
            /\ entry_equals(cache.mru_list[i], cache.mru_list[i])
            /\ cache.mru_list[i].query = cache.mru_list[j].query => i = j

(***************************************************************************)
(* SpecHash: adds and lookups of queries that are equal to one another:    *)
(* they differ in the transaction id and the TC bit, or in a byte that     *)
(* follows the question of a query without additional record.  The         *)
(* lookups carry ANDROID_RESOLV_NO_CACHE_STORE.                            *)
(***************************************************************************)
HashQueries == {1, 2, 12, 13, 18, 19}
HashAnswers == {2}

NextHash ==
    \/ \E t \in FingerprintThreads, n \in NetIds, q \in HashQueries :
           CacheLookup(t, n, q, PACKETSZ, {ANDROID_RESOLV_NO_CACHE_STORE})
    \/ \E t \in FingerprintThreads, n \in NetIds, q \in HashQueries, a \in HashAnswers :
           CacheAdd(t, n, q, a)

SpecHash == InitCache /\ [][NextHash]_vars

\* C39: two validated queries that are equal have the same hash, and while
\* the cache holds an entry added under one of them a lookup of the other
\* returns FOUND.
C39_EqualQueriesHashAlike ==
    \A q1, q2 \in HashQueries :
        (/\ CheckTable[q1]
         /\ CheckTable[q2]
         /\ entry_equals(entry_init_key(q1), entry_init_key(q2)))
            => /\ entry_hash(q1) = entry_hash(q2)
               /\ \A n \in NetIds :
                      HasEntryFor(n, q1) => LookupNow(n, q2).status = RESOLV_CACHE_FOUND

(***************************************************************************)
(* SpecRetry: the calls of SpecSend over a network with the default retry  *)
(* count or with a retry count of one, where a thread that has entered     *)
(* res_nsend goes on to its return: every send_dg and send_vc returns, and *)
(* the steps between them are straight-line code.  When the caller makes   *)
(* its next call is left open.                                             *)
(***************************************************************************)
\* a step of thread t inside res_nsend
SendRun(t) ==
    \/ NsendLookup(t)
    \/ NsendPopulate(t)
    \/ NsendGetStats(t)
    \/ \E large \in BOOLEAN, tc \in BOOLEAN, u \in SUBSET (0..1) \ {{}}, id \in SendIds :
           SendLoopEnter(t, large, tc, u, id)
    \/ SendSkip(t)
    \/ \E o \in VcOutcomes : SendTryVc(t, o, 1)
    \/ \E o \in DgOutcomes : SendTryDg(t, o, 1)
    \/ SendExhausted(t)
    \/ NsendAdd(t)
    \/ NsendQueryFailed(t)

NextRetry ==
    \/ \E t \in SendThreads, n \in NetIds, f \in SendFlags : NsendCall(t, n, 1, f, TRUE)
    \/ \E t \in SendThreads : SendRun(t)
    \/ \E t \in SendThreads : NsendDone(t)

\* the retry counts of the network's parameters: 0 stands for the default
RetryCounts == {0, 1}

\* the network of SpecRetry: two servers, a ring of one sample for each
RetryInfo(retry_count) ==
    SetNameserversLocked(create_cache_info, <<"a", "b">>, << >>,
                         [max_samples |-> 1, retry_count |-> retry_count])

InitRetry ==
    /\ now = 0
    /\ \E rc \in RetryCounts : cache_list = [n \in NetIds |-> RetryInfo(rc)]
    /\ pc = [t \in Threads |-> "idle"]
    /\ tl = [t \in Threads |-> NoLocals]
    /\ pdns = PdnsInit
    /\ last_call = NoCall

SpecRetry ==
    InitRetry /\ [][NextRetry]_vars /\ \A t \in SendThreads : WF_vars(SendRun(t))

\* the tries of the call over UDP
DgTries(l) == {i \in 1..Len(l.tried) : l.tried[i] \in DgOutcomes}

\* the values of terrno: its initial value and what send_dg and send_vc set
LoopErrnos == {ETIMEDOUT, ECONNREFUSED, EMSGSIZE, AN_ERRNO}

\* the thread is in the retry loop of res_nsend or right behind it
InRetryLoop(t) == pc[t] \in {"s_loop", "s_exhausted"}

\* C40: the retry loop of res_nsend ends whatever send_dg and send_vc
\* return: a call makes at most retryTimes x nscount tries over UDP
\* (retryTimes is 1 with NO_RETRY and retry_count else, never above
\* retry_count) and at most one try over TCP for a server index, a try over
\* TCP that follows a truncated answer of the same server index included;
\* a thread in the loop leaves it and the call returns; and a call that
\* has made a try returns an answer of a positive length or a negative
\* errno.
C40_RetryLoopTerminates ==
    /\ [](\A t \in SendThreads :
              LET l == tl[t] IN
              /\ l.retryTimes <= l.retry_count
              /\ Cardinality(DgTries(l)) <= l.retryTimes * l.nscount
              /\ Cardinality(DgTries(l)) <= l.retry_count * l.nscount
              /\ \A ns \in 0..(l.nscount - 1) :
                     Cardinality({i \in VcTries(l) : l.tried_ns[i] = ns}) <= 1
              /\ Len(l.tried) <= l.retryTimes * l.nscount + l.nscount)
    /\ [](\A t \in SendThreads :
              (pc[t] = "done" /\ (tl[t].tried # << >> \/ tl[t].exhausted))
                  => \/ tl[t].ret = RET_ANSWER /\ tl[t].answer > 0
                     \/ tl[t].ret \in {NegErrno(e) : e \in LoopErrnos})
    /\ \A t \in SendThreads : InRetryLoop(t) ~> pc[t] = "done"

\* a call without NO_RETRY over two servers has made four tries over UDP,
\* the last with a truncated answer, then the try over TCP of that server,
\* and has returned the errno of it
C40_Witness ==
    \E t \in SendThreads :
        LET l == tl[t] IN
        /\ pc[t] = "done"
        /\ l.retryTimes = 2
        /\ l.nscount = 2
        /\ Cardinality(DgTries(l)) = 4
        /\ Len(l.tried) = 5
        /\ l.tried[4] = DG_TRUNCATED
        /\ l.tried[5] = VC_FAILED
        /\ l.ret = NegErrno(AN_ERRNO)

====
